---- MODULE Spec2Model ----
(***************************************************************************)
(* A model of vidlu: the adversarial attacks                               *)
(* (vidlu/training/adversarial/attacks.py), the lazy dataset pipeline and  *)
(* its caches (vidlu/data/dataset.py, vidlu/data/utils/caching.py),        *)
(* FileDict and the attribute context managers.                            *)
(*                                                                         *)
(* Each component has its own specification over the shared variables:     *)
(*   SpecAttack   Attack.__init__ and the steps of Attack.perturb          *)
(*   SpecDataset  Dataset indexing and the composition operators           *)
(*   SpecCompose  the composition operators on the object heap: which      *)
(*                lists and mappings each call allocates and writes        *)
(*   SpecCache    the RAM cache, the whole-dataset disk cache, the         *)
(*                per-example disk cache and cache_data_lazily             *)
(*   SpecPgd      perturb_iterative, iteration by iteration                *)
(*   SpecCw       CarliniWagnerL2Attack: __init__ and the binary search    *)
(*                of _perturb                                              *)
(*   SpecFd       FileDict (vidlu/utils/collections.py) and its file       *)
(*   SpecSw       the attribute context managers (vidlu/utils/torch.py,    *)
(*                vidlu/torch_utils.py)                                    *)
(* While one component runs, the variables of the others stay at their     *)
(* idle values.                                                            *)
(***************************************************************************)
EXTENDS Integers, Sequences, FiniteSets, TLC

VARIABLES
    \* ---- Attack component -------------------------------------------
    atkState,      \* "Unconfigured" | "Configured" | "Perturbing" | "ConstructFailed"
    atk,           \* the attack object's fields (cls, clip_bounds, get_predicted_label, model)
    pc,            \* position inside Attack.perturb: "idle", "l114", "l116", "l117", "l119", "l120"
    argX, argY,    \* the arguments of the running (or last) perturb call
    y,             \* the local y of perturb (argY, or the predicted label)
    stepResult,    \* what self._perturb returned
    x_adv,         \* the local x_adv of perturb
    events,        \* payloads perturb_completed was called with during the running (or last) call
    modelEvals,    \* evaluations of the model during the running (or last) call
    outcome,       \* how the last call ended: [kind |-> "none" | "returned" | "raised", ...]
    calls,         \* completed perturb calls
    \* ---- Dataset component ------------------------------------------
    base,          \* the base dataset D (raw data, a name, a subset)
    assertsOn,     \* whether the interpreter executes assert statements (off under -O)
    op,            \* the last composition call on D: its name and arguments
    view,          \* what that call returned (a dataset, a pair of datasets) or raised
    subj,          \* which dataset was indexed last: "base", "view", "first", "second"
    idx,           \* the integer index of the last indexing
    got,           \* what the last indexing returned or raised
    \* ---- Composition on the object heap ------------------------------
    heap,          \* the mutable objects: each list or mapping by its reference
    objs,          \* the dataset objects D, E (another operand), I, W, W2: their attributes
    before,        \* the attribute values of D when it was constructed
    cop,           \* the last composition or indexing call on D
    cres,          \* what that call returned (the names of the new wrappers) or raised
    \* ---- Caches ------------------------------------------------------
    studied,       \* the kind of cache the behaviour is about: "ram", "whole", "hdd"
    csrc,          \* the wrapped dataset D
    version,       \* how many times the data behind D has changed upstream
    ccache,        \* the cache object built last (earlier ones are discarded), or Nothing
    wfile,         \* the file of the whole-dataset disk cache
    cdir,          \* whether the directory of the per-example disk cache exists
    files,         \* the files of that directory, by (index, field)
    served,        \* the indices read from a per-example cache so far, while nothing went wrong
    faults,        \* how many times a file was damaged or the data changed upstream
    clast,         \* the last call on a cache: its name and arguments
    cout,          \* what that call returned or raised
    creads,        \* how many times that call read each index of D
    cwarn,         \* the warnings that call issued
    \* ---- perturb_iterative ------------------------------------------
    pgd,           \* the arguments of the call
    ppc,           \* position: "idle", "loop" (line 232), "after" (line 279), "done"
    step,          \* the local step: Unbound or an integer
    xw,            \* the local x: the examples still worked on
    delta,         \* the local delta, the same tensor as the last of deltas
    dgrad,         \* delta.grad, what the backward passes have accumulated
    origin,        \* the local origin: the batch positions of the examples of x
    xs, deltas, successes, origins,   \* the lists of line 222
    success,       \* the mask the success predicate answered last
    evals,         \* evaluations of the model (forward passes)
    updates,       \* updates of delta (lines 258-262)
    pout,          \* how the call ended
    found,         \* history: the delta each example had when found successful
    \* ---- CarliniWagnerL2Attack ---------------------------------------
    cw,            \* the call: the object's attributes and the labels y
    cwpc,          \* position: "idle", "new", "ready", "outer", "inner", "update", "done"
    coeff_lower_bound, coeff_upper_bound, loss_coeffs,   \* the locals of _perturb
    aliased,       \* loss_coeffs and coeff_upper_bound are one tensor (line 486)
    outer_step,    \* the binary-search steps done
    inner_ii,      \* the local ii of the inner loop
    trackers,      \* per example: cur_l2distsqs, cur_labels, final_l2distsqs,
                   \* final_labels and final_advs
    succeeded,     \* history: line 442 found the example successful
    cwout,         \* how the call ended
    \* ---- FileDict ---------------------------------------------------
    fdpc,          \* "idle", "new" (before __init__), "open", "failed"
    fdict,         \* self._dict
    ffile,         \* the file at self.path
    fstrict,       \* error_on_corrupt_file
    fcall,         \* the last call on the object and what it raised
    fwarned,       \* __init__ warned about the file
    \* ---- attribute context managers ----------------------------------
    swpc,          \* "idle", "before", "inside", "after", "raised"
    swctx,         \* the context manager and its arguments
    swattr,        \* the attributes of the objects
    swbefore,      \* history: the attributes when the with statement was reached
    swstate,       \* the values the generator keeps
    swwrites       \* assignments made by the body

varsAttack == <<atkState, atk, pc, argX, argY, y, stepResult, x_adv, events,
                modelEvals, outcome, calls>>

varsDataset == <<base, assertsOn, op, view, subj, idx, got>>

varsCompose == <<heap, objs, before, cop, cres>>

varsCache == <<studied, csrc, version, ccache, wfile, cdir, files, served, faults,
               clast, cout, creads, cwarn>>

varsPgd == <<pgd, ppc, step, xw, delta, dgrad, origin, xs, deltas, successes,
             origins, success, evals, updates, pout, found>>

varsCw == <<cw, cwpc, coeff_lower_bound, coeff_upper_bound, loss_coeffs, aliased,
            outer_step, inner_ii, trackers, succeeded, cwout>>

varsFd == <<fdpc, fdict, ffile, fstrict, fcall, fwarned>>

varsSw == <<swpc, swctx, swattr, swbefore, swstate, swwrites>>

\* What the actions of one component leave alone.
varsNotAttack ==
    <<varsDataset, varsCompose, varsCache, varsPgd, varsCw, varsFd, varsSw>>
varsNotDataset ==
    <<varsAttack, varsCompose, varsCache, varsPgd, varsCw, varsFd, varsSw>>
varsNotCompose ==
    <<varsAttack, varsDataset, varsCache, varsPgd, varsCw, varsFd, varsSw>>
varsNotCache ==
    <<varsAttack, varsDataset, varsCompose, varsPgd, varsCw, varsFd, varsSw>>
varsNotPgd ==
    <<varsAttack, varsDataset, varsCompose, varsCache, varsCw, varsFd, varsSw>>
varsNotCw ==
    <<varsAttack, varsDataset, varsCompose, varsCache, varsPgd, varsFd, varsSw>>
varsNotFd ==
    <<varsAttack, varsDataset, varsCompose, varsCache, varsPgd, varsCw, varsSw>>
varsNotSw ==
    <<varsAttack, varsDataset, varsCompose, varsCache, varsPgd, varsCw, varsFd>>

vars == <<atkState, atk, pc, argX, argY, y, stepResult, x_adv, events,
          modelEvals, outcome, calls, base, assertsOn, op, view, subj, idx, got,
          heap, objs, before, cop, cres,
          studied, csrc, version, ccache, wfile, cdir, files, served, faults,
          clast, cout, creads, cwarn,
          pgd, ppc, step, xw, delta, dgrad, origin, xs, deltas, successes,
          origins, success, evals, updates, pout, found,
          cw, cwpc, coeff_lower_bound, coeff_upper_bound, loss_coeffs, aliased,
          outer_step, inner_ii, trackers, succeeded, cwout,
          fdpc, fdict, ffile, fstrict, fcall, fwarned,
          swpc, swctx, swattr, swbefore, swstate, swwrites>>

(***************************************************************************)
(* Bounds                                                                  *)
(***************************************************************************)
\* Coordinates of a tensor take the values 0..MaxVal.
MaxVal == 3
\* perturb calls per behaviour.
MaxCalls == 2
\* The base dataset has 0..MaxLen elements.
MaxLen == 3
\* Seeds of the pseudo-random generator are 0..MaxSeed.
MaxSeed == 2
\* A cached dataset has 0..MaxExamples examples.
MaxExamples == 2
\* Cache files damaged and changes of the data upstream, per behaviour.
MaxFaults == 1
\* Free disk space and min_free_space are 0..MaxSpace units.
MaxSpace == 4
\* A batch has 1..MaxBatch examples.
MaxBatch == 2
\* step_count is 0..MaxSteps.
MaxSteps == 2
\* binary_search_steps is 1..MaxOuter, or REPEAT_STEP.
MaxOuter == 2
\* max_iter is 1..MaxIter.
MaxIter == 2
\* A squared distance is 1..MaxDist.
MaxDist == 2
\* The body of a with statement makes 0..MaxWrites assignments.
MaxWrites == 1

None == [kind |-> "None"]

\* Op applied to the value of v, which is evaluated once.
Apply(Op(_), v) == CHOOSE out \in {Op(x) : x \in {v}} : TRUE

(***************************************************************************)
(* Tensors: an identity (which Python object it is) and its coordinates.   *)
(* A batch of one example with two coordinates; the model's output has one *)
(* logit per class, two classes.                                           *)
(***************************************************************************)
Coords == {1, 2}
Values == 0..MaxVal
Labels == {1, 2}

Tensor(id, v) == [kind |-> "Tensor", id |-> id, v |-> v]
TensorValues == [Coords -> Values]
NoTensor == Tensor("unset", [c \in Coords |-> 0])

\* x.detach().clone(): a new tensor with the same coordinates.
DetachClone(t) == Tensor(t.id \o ".clone", t.v)

Min(a, b) == IF a <= b THEN a ELSE b
Max(a, b) == IF a >= b THEN a ELSE b

\* torch.clamp(x, lo, hi) = min(max(x, lo), hi) per coordinate, a new tensor.
ClampLowerOnly(t, lo, hi) == Tensor("clamp", [c \in Coords |-> Max(t.v[c], lo)])
Clamp(t, lo, hi) == Tensor("clamp", [c \in Coords |-> Min(Max(t.v[c], lo), hi)])

\* Attack._clip: torch.clamp(x, *self.clip_bounds)
_clip(self, t) == Clamp(t, self.clip_bounds.lo, self.clip_bounds.hi)

(***************************************************************************)
(* The model (an external collaborator): logits from an input. Two models, *)
(* so that the prediction depends on the configured one.                   *)
(***************************************************************************)
Models == {"identity", "swapped"}
ModelOutput(model, t) ==
    IF model = "identity" THEN <<t.v[1], t.v[2]>> ELSE <<t.v[2], t.v[1]>>

\* torch.max(out, dim=1): the index of the first maximal logit.
ArgMax(out) == CHOOSE i \in 1..Len(out) :
                  /\ \A j \in 1..Len(out) : out[j] <= out[i]
                  /\ \A j \in 1..(i - 1) : out[j] < out[i]

\* _predict_hard(predict, x): one model evaluation, then the arg-max.
_predict_hard(predict, x) == ArgMax(ModelOutput(predict, x))

(***************************************************************************)
(* Python callables: what the object is and how many positional arguments  *)
(* it takes.                                                               *)
(***************************************************************************)
\* def _predict_hard(predict, x)
PredictHardFunction == [kind |-> "function", name |-> "_predict_hard", arity |-> 2]
\* functools.partial(_predict_hard, model): takes x alone.
PredictHardPartial == [kind |-> "partial", name |-> "_predict_hard", arity |-> 1]
GetPredictedLabelArgs == {None, PredictHardPartial}

\* The classes: the base type, a subclass that does not override _perturb,
\* and a subclass that does (as GradientSignAttack does).
Classes == {"Attack", "PlainSubclass", "OverridingSubclass"}
Overrides(cls) == cls = "OverridingSubclass"

\* The function object Attack._perturb.
AttackPerturbFunction == [kind |-> "function", name |-> "Attack._perturb"]
\* The function the attribute lookup self._perturb finds along the class's MRO.
ResolvePerturb(cls) ==
    IF Overrides(cls) THEN [kind |-> "function", name |-> cls \o "._perturb"]
    ELSE AttackPerturbFunction
\* self._perturb: a bound method wrapping that function.
BoundPerturb(cls) == [kind |-> "method", func |-> ResolvePerturb(cls)]
\* type(obj): the class object of obj.
TypeOf(obj) == [kind |-> "type", name |-> obj.kind]

\* Attack.__init__ line 91: type(self._perturb) == Attack._perturb
InitGuardRaises(cls) == TypeOf(BoundPerturb(cls)) = AttackPerturbFunction

ClipBoundsArgs ==
    {None} \cup {[kind |-> "bounds", lo |-> lo, hi |-> hi] :
                    lo \in {1}, hi \in {1, MaxVal - 1}}

NoAttack == [cls |-> "none", model |-> "none", clip_bounds |-> None,
             get_predicted_label |-> None]
NoOutcome == [kind |-> "none", exc |-> "none", value |-> NoTensor]
Returned(t) == [kind |-> "returned", exc |-> "none", value |-> t]
Raised(e) == [kind |-> "raised", exc |-> e, value |-> NoTensor]

AttackInit ==
    /\ atkState = "Unconfigured"
    /\ atk = NoAttack
    /\ pc = "idle"
    /\ argX = NoTensor
    /\ argY = None
    /\ y = None
    /\ stepResult = NoTensor
    /\ x_adv = NoTensor
    /\ events = <<>>
    /\ modelEvals = 0
    /\ outcome = NoOutcome
    /\ calls = 0

\* Attack.__init__(model, loss, clip_bounds, is_success, get_predicted_label)
\* of class cls (a subclass's __init__ calls it through super()).
Construct(cls, model, clip_bounds, get_predicted_label) ==
    /\ atkState = "Unconfigured"
    /\ IF InitGuardRaises(cls)
       THEN /\ atkState' = "ConstructFailed"
            /\ outcome' = Raised("RuntimeError")
            /\ atk' = [atk EXCEPT !.cls = cls]
       ELSE /\ atkState' = "Configured"
            /\ outcome' = outcome
            /\ atk' = [cls |-> cls, model |-> model, clip_bounds |-> clip_bounds,
                       get_predicted_label |->
                           IF get_predicted_label = None THEN PredictHardFunction
                           ELSE get_predicted_label]
    /\ UNCHANGED <<pc, argX, argY, y, stepResult, x_adv, events, modelEvals, calls>>
    /\ UNCHANGED varsNotAttack

\* An exception leaves perturb: the call is over, the attack object is as it was.
RaiseOut(e) ==
    /\ pc' = "idle"
    /\ atkState' = "Configured"
    /\ outcome' = Raised(e)
    /\ calls' = calls + 1

\* A call perturb(x, y) begins (y = None: omitted).
PerturbCall(xv, yArg) ==
    /\ atkState = "Configured"
    /\ pc = "idle"
    /\ calls < MaxCalls
    /\ atkState' = "Perturbing"
    /\ pc' = "l114"
    /\ argX' = Tensor("x", xv)
    /\ argY' = yArg
    /\ y' = yArg
    /\ stepResult' = NoTensor
    /\ x_adv' = NoTensor
    /\ events' = <<>>
    /\ modelEvals' = 0
    /\ outcome' = NoOutcome
    /\ UNCHANGED <<atk, calls>>
    /\ UNCHANGED varsNotAttack

\* Lines 114-115: if y is None: y = self.get_predicted_label(x).
\* The stored callable is called with x alone.
PredictLabel ==
    /\ pc = "l114"
    /\ IF y # None
       THEN /\ pc' = "l116"
            /\ UNCHANGED <<y, modelEvals, atkState, outcome, calls>>
       ELSE IF atk.get_predicted_label.arity # 1
            THEN /\ RaiseOut("TypeError")
                 /\ UNCHANGED <<y, modelEvals>>
            ELSE /\ y' = [kind |-> "Tensor", id |-> "y_pred",
                          v |-> _predict_hard(atk.model, argX)]
                 /\ modelEvals' = modelEvals + 1
                 /\ pc' = "l116"
                 /\ UNCHANGED <<atkState, outcome, calls>>
    /\ UNCHANGED <<atk, argX, argY, stepResult, x_adv, events>>
    /\ UNCHANGED varsNotAttack

\* What self._perturb(x.detach().clone(), y.detach().clone()) can do: the base
\* implementation raises NotImplementedError; an override returns some tensor
\* (a new one, or its argument itself) or raises.
PerturbStepResults(cls, xc) ==
    IF ~Overrides(cls) THEN {Raised("NotImplementedError")}
    ELSE {Raised("StepError")}
         \cup {Returned(Tensor("step", v)) : v \in TensorValues}
         \cup {Returned(xc)}

\* Line 116: x_adv = self._perturb(x.detach().clone(), y.detach().clone())
CallPerturbStep ==
    /\ pc = "l116"
    /\ \E r \in PerturbStepResults(atk.cls, DetachClone(argX)) :
          IF r.kind = "raised"
          THEN /\ RaiseOut(r.exc)
               /\ UNCHANGED <<stepResult, x_adv>>
          ELSE /\ stepResult' = r.value
               /\ x_adv' = r.value
               /\ pc' = "l117"
               /\ UNCHANGED <<atkState, outcome, calls>>
    /\ UNCHANGED <<atk, argX, argY, y, events, modelEvals>>
    /\ UNCHANGED varsNotAttack

\* Lines 117-118: if self.clip_bounds is not None: x_adv = self._clip(x_adv)
ClipStep ==
    /\ pc = "l117"
    /\ x_adv' = IF atk.clip_bounds # None THEN _clip(atk, x_adv) ELSE x_adv
    /\ pc' = "l119"
    /\ UNCHANGED <<atkState, atk, argX, argY, y, stepResult, events, modelEvals,
                   outcome, calls>>
    /\ UNCHANGED varsNotAttack

\* Namespace(x=x, y=y, x_adv=x_adv)
Payload(px, py, padv) == [x |-> px, y |-> py, x_adv |-> padv]

\* Line 119: self.perturb_completed(Namespace(x=x, y=y, x_adv=x_adv))
FireEventTwice ==
    /\ pc = "l119"
    /\ events' = events \o <<Payload(argX, y, x_adv), Payload(argX, y, x_adv)>>
    /\ pc' = "l120"
    /\ UNCHANGED <<atkState, atk, argX, argY, y, stepResult, x_adv, modelEvals,
                   outcome, calls>>
    /\ UNCHANGED varsNotAttack
FireEvent ==
    /\ pc = "l119"
    /\ events' = Append(events, Payload(argX, y, x_adv))
    /\ pc' = "l120"
    /\ UNCHANGED <<atkState, atk, argX, argY, y, stepResult, x_adv, modelEvals,
                   outcome, calls>>
    /\ UNCHANGED varsNotAttack

\* Line 120: return x_adv
ReturnStep ==
    /\ pc = "l120"
    /\ outcome' = Returned(x_adv)
    /\ pc' = "idle"
    /\ atkState' = "Configured"
    /\ calls' = calls + 1
    /\ UNCHANGED <<atk, argX, argY, y, stepResult, x_adv, events, modelEvals>>
    /\ UNCHANGED varsNotAttack

AttackNext ==
    \/ \E cls \in Classes, m \in Models, cb \in ClipBoundsArgs,
          g \in GetPredictedLabelArgs : Construct(cls, m, cb, g)
    \/ \E xv \in TensorValues, yArg \in {None} \cup
          {[kind |-> "Tensor", id |-> "y", v |-> l] : l \in Labels} :
          PerturbCall(xv, yArg)
    \/ PredictLabel
    \/ CallPerturbStep
    \/ ClipStep
    \/ FireEvent
    \/ ReturnStep

(***************************************************************************)
(* Dataset component (vidlu/data/dataset.py)                               *)
(*                                                                         *)
(* Python values: an optional integer is None or PyInt(v); a raw list and a  *)
(* numpy array are records holding their items; the result of a call is    *)
(* Ok(value) or Raise(exception type). Python indices are 0-based, the     *)
(* items of a TLA+ sequence 1-based.                                       *)
(***************************************************************************)
PyInt(v) == [kind |-> "int", v |-> v]
List(items) == [kind |-> "list", items |-> items]
NdArray(items) == [kind |-> "ndarray", items |-> items]
Ok(v) == [kind |-> "ok", val |-> v, exc |-> "none", gets |-> 0]
Raise(e) == [kind |-> "raise", val |-> <<>>, exc |-> e, gets |-> 0]
Nothing == [kind |-> "nothing", val |-> <<>>, exc |-> "none", gets |-> 0]
NoInfo == <<>>

\* Element i of the raw data; never equal to an index.
Element(i) == "e" \o ToString(i)
RawData(n) == List([i \in 1..n |-> Element(i - 1)])

\* type(self).__name__ without a trailing 'Dataset' (lines 73-74).
ClassName(cls) ==
    CASE cls = "Dataset" -> ""
      [] cls = "BatchDataset" -> "Batch"
      [] cls = "SubDataset" -> "Sub"
      [] cls = "SubrangeDataset" -> "Subrange"
      [] cls = "SampleDataset" -> "Sample"
      [] cls = "MapDataset" -> "Map"
      [] cls = "RepeatDataset" -> "Repeat"
      [] cls = "ZipDataset" -> "Zip"
      [] cls = "CollateDataset" -> "Collate"
      [] cls = "CacheDataset" -> "Cache"
      [] cls = "HDDAndRAMCacheDataset" -> "HDDAndRAMCache"
      [] cls = "HDDCacheDataset" -> "HDDCache"
      [] OTHER -> cls

\* Dataset.__init__(name, subset, modifiers, info, data); an absent name or
\* subset is "", absent modifiers are <<>>, absent info is NoInfo.
DatasetInit(cls, name, subset, modifiers, info, data) ==
    LET wraps == data.kind = "Dataset" IN
    [kind |-> "Dataset",
     cls |-> cls,
     name |-> IF name # "" THEN name
              ELSE IF wraps /\ data.name # "" THEN data.name
              ELSE ClassName(cls),
     subset |-> IF subset # "" THEN subset
                ELSE IF wraps THEN data.subset ELSE "",
     modifiers |-> (IF wraps THEN data.modifiers ELSE <<>>) \o modifiers,
     info |-> IF info # NoInfo THEN info
              ELSE IF wraps THEN data.info ELSE NoInfo,
     data |-> data]

RECURSIVE Join(_, _)
\* sep.join(strings)
Join(strings, sep) ==
    IF Len(strings) = 0 THEN ""
    ELSE IF Len(strings) = 1 THEN strings[1]
    ELSE strings[1] \o sep \o Join(Tail(strings), sep)

\* Dataset.identifier
identifier(self) ==
    self.name
        \o (IF self.subset # "" THEN "-" \o self.subset ELSE "")
        \o (IF Len(self.modifiers) > 0 THEN "." \o Join(self.modifiers, ".") ELSE "")

RECURSIVE __len__(_)
\* len(self): the overriding classes return their stored length, the others
\* len(self.data).
__len__(self) ==
    CASE self.cls \in {"SubDataset", "SubrangeDataset", "SampleDataset"} -> self._len
      [] self.cls = "BatchDataset" -> self._length
      [] OTHER -> IF self.data.kind = "Dataset" THEN __len__(self.data)
                  ELSE Len(self.data.items)

\* Lines 118-119: if idx < 0: idx += len(self)
NoWrapIndex(i, n) == i
WrapIndex(i, n) == IF i < 0 THEN i + n ELSE i
\* Line 120: idx < 0 or idx >= len(self)
OutOfRange(i, n) == i < 0 \/ i >= n

\* obj(arg) where obj is what _compress_indices returned, an array or a list:
\* neither is callable, the call raises TypeError.
PyCall(obj, arg) ==
    CASE obj.kind \in {"ndarray", "list"} -> Raise("TypeError")

\* The first raise among the results rs, else the tuple of their values.
TupleOf(rs) ==
    IF \E t \in 1..Len(rs) : rs[t].kind = "raise"
    THEN rs[CHOOSE t \in 1..Len(rs) :
               /\ rs[t].kind = "raise"
               /\ \A u \in 1..(t - 1) : rs[u].kind # "raise"]
    ELSE Ok([t \in 1..Len(rs) |-> rs[t].val])

RECURSIVE __getitem__(_, _), get_example(_, _), DataItem(_, _)

\* Dataset.__getitem__(idx) for an integer idx; gets counts the calls of
\* self.get_example.
__getitem__(self, i) ==
    LET n == __len__(self)
        j == WrapIndex(i, n)
    IN IF OutOfRange(j, n) THEN Raise("IndexError")
       ELSE [get_example(self, j) EXCEPT !.gets = 1]

\* self.data[i]: the wrapped dataset's __getitem__, or the indexing of a list.
DataItem(data, i) ==
    IF data.kind = "Dataset" THEN __getitem__(data, i)
    ELSE LET n == Len(data.items) IN
         IF i < -n \/ i >= n THEN Raise("IndexError")
         ELSE Ok(data.items[(IF i < 0 THEN i + n ELSE i) + 1])

\* get_example of each class.
get_example(self, i) ==
    CASE self.cls = "SubDataset" ->
            DataItem(self.data, self._get_index.items[i + 1])
      [] self.cls = "SubrangeDataset" ->
            DataItem(self.data, self.start + self.step * i)
      [] self.cls = "SampleDataset" ->
            LET k == PyCall(self._indices, i) IN
            IF k.kind = "raise" THEN k ELSE DataItem(self.data, k.val)
      [] self.cls = "BatchDataset" ->
            LET batch_size == IF i = self._length - 1 THEN self._last_batch_size
                              ELSE self._batch_size
                i_start == i * self._batch_size
            IN TupleOf([t \in 1..batch_size |-> DataItem(self.data, i_start + t - 1)])
      [] OTHER -> DataItem(self.data, i)

(***************************************************************************)
(* numpy.random.RandomState(seed), an external generator: here a small     *)
(* linear congruential generator, deterministic in the seed. permutation   *)
(* is a bijection of 0..n-1 that depends on the seed.                      *)
(***************************************************************************)
RngNext(s) == (5 * s + 3) % 16
RECURSIVE RngState(_, _)
RngState(seed, k) == IF k = 0 THEN seed ELSE RngNext(RngState(seed, k - 1))
\* The k-th call rand.randint(0, n), k = 1, 2, ...
Randint(seed, k, n) == RngState(seed, k) % n
\* rand.permutation(n)
Permutation(seed, n) == [i \in 1..n |-> ((i - 1) + RngState(seed, 1)) % n]

\* _compress_indices(indices, max): an array of the smallest unsigned type.
_compress_indices(indices, max) == NdArray(indices)

\* SubDataset.__init__(dataset, indices, modifiers=...) for a list of indices.
SubDataset(dataset, indices, modifiers) ==
    DatasetInit("SubDataset", "", "", modifiers, NoInfo, dataset)
        @@ [_len |-> Len(indices),
            _get_index |-> _compress_indices(indices, __len__(dataset))]

\* slice(start, stop).indices(n), step None: (start, stop, 1) clipped to 0..n.
ClipIndex(v, n) == IF v < 0 THEN Max(v + n, 0) ELSE Min(v, n)
SliceIndices(sl, n) ==
    [start |-> IF sl.start.kind = "None" THEN 0 ELSE ClipIndex(sl.start.v, n),
     stop |-> IF sl.stop.kind = "None" THEN n ELSE ClipIndex(sl.stop.v, n),
     step |-> 1]
Slice(start, stop) == [kind |-> "slice", start |-> start, stop |-> stop]

\* vidlu.utils.misc.slice_len(slice, length): how many indices the slice selects.
slice_len(sl, n) ==
    LET s == SliceIndices(sl, n) IN Max(0, (s.stop - s.start + s.step - 1) \div s.step)

\* SubrangeDataset.__init__(dataset, slice)
SubrangeDataset(dataset, sl) ==
    LET s == SliceIndices(sl, __len__(dataset))
        modifier == "[" \o ToString(s.start) \o ".." \o ToString(s.stop)
                        \o (IF s.step = 1 THEN "]" ELSE ";" \o ToString(s.step) \o "]")
    IN DatasetInit("SubrangeDataset", "", "", <<modifier>>, NoInfo, dataset)
        @@ [start |-> s.start, stop |-> s.stop, step |-> s.step,
            _len |-> slice_len(sl, __len__(dataset))]

\* BatchDataset.__init__: lines 530-533, the number of batches.
BatchCountFloor(n, batch_size) == n \div batch_size
BatchCount(n, batch_size) ==
    LET length == n \div batch_size IN
    IF n > length * batch_size THEN length + 1 ELSE length
\* BatchDataset.__init__(dataset, batch_size)
BatchDataset(dataset, batch_size) ==
    LET n == __len__(dataset)
        length == BatchCount(n, batch_size)
    IN DatasetInit("BatchDataset", "", "",
                   <<"batch(" \o ToString(batch_size) \o ")">>, NoInfo, dataset)
        @@ [_length |-> length,
            _batch_size |-> batch_size,
            _last_batch_size |-> batch_size - (length * batch_size - n)]

\* Dataset.batch(batch_size)
batch(self, batch_size) == Ok(BatchDataset(self, batch_size))

\* round(num/den) for num/den >= 0: to the nearest integer, a tie to the even one.
Round(num, den) ==
    LET q == num \div den
        r == num % den
    IN IF 2 * r < den THEN q
       ELSE IF 2 * r > den THEN q + 1
       ELSE IF q % 2 = 0 THEN q ELSE q + 1

\* A ratio is None or the fraction num/den.
Ratio(num, den) == [kind |-> "ratio", num |-> num, den |-> den]
\* Python truth of an optional integer: None and 0 are false.
Truthy(v) == v.kind = "int" /\ v.v # 0

\* Dataset.split(ratio=None, position=None)
split(self, ratio, position) ==
    IF (ratio.kind = "None") = (position.kind = "None") THEN Raise("ValueError")
    ELSE IF ~Truthy(position) /\ ratio.kind = "None"
         THEN Raise("TypeError")  \* round(None * len(self))
    ELSE LET pos == IF Truthy(position) THEN position.v
                    ELSE Round(ratio.num * __len__(self), ratio.den)
         IN Ok(<<SubrangeDataset(self, Slice(None, PyInt(pos))),
                 SubrangeDataset(self, Slice(PyInt(pos), None))>>)

\* SampleDataset.__init__(dataset, length, replace, seed); asserts: whether
\* the assert statement of line 483 is executed.
SampleDataset(dataset, length0, replace, seed, asserts) ==
    LET n == __len__(dataset)
        length == IF Truthy(length0) THEN length0.v ELSE n
        indices == IF replace THEN [k \in 1..n |-> Randint(seed, k, n)]
                   ELSE SubSeq(Permutation(seed, n), 1, Min(length, n))
        modifier == "sample" \o (IF replace THEN "_r" ELSE "") \o "("
                        \o ToString(seed) \o "," \o ToString(length) \o ")"
    IN IF asserts /\ ~(replace \/ length <= n) THEN Raise("AssertionError")
       ELSE IF ~replace /\ length > n THEN Raise("ValueError")
       ELSE Ok(DatasetInit("SampleDataset", "", "", <<modifier>>, NoInfo, dataset)
                  @@ [_indices |-> _compress_indices(indices, n),
                      _len |-> IF length # 0 THEN length ELSE n])

\* Dataset.sample(length, replace=False, seed=53)
sample(self, length, replace, seed, asserts) ==
    SampleDataset(self, length, replace, seed, asserts)

\* Dataset.permute(seed=53): the modifier is the literal string of line 201,
\* which is not an f-string.
permute(self, seed) ==
    Ok(SubDataset(self, Permutation(seed, __len__(self)), <<"permute({seed})">>))

(***************************************************************************)
(* The dataset state machine: composition calls on the base dataset D or   *)
(* on a view built on it, and integer indexing of D and of what they       *)
(* return.                                                                 *)
(***************************************************************************)
Seeds == 0..MaxSeed
BatchSizes == 1..(MaxLen + 1)
Positions == {None} \cup {PyInt(p) : p \in 0..MaxLen}
Ratios == {None, Ratio(0, 1), Ratio(1, 4), Ratio(1, 2), Ratio(3, 4), Ratio(1, 1)}
SampleLengths == {None} \cup {PyInt(l) : l \in 1..(MaxLen + 1)}
Indices == (0 - MaxLen - 2)..(MaxLen + 1)

NoOp == [name |-> "none"]

DatasetInitial ==
    /\ base \in {DatasetInit("Dataset", "D", subset, <<>>, NoInfo, RawData(n)) :
                    subset \in {"", "train"}, n \in 0..MaxLen}
    /\ assertsOn \in BOOLEAN
    /\ op = NoOp
    /\ view = Nothing
    /\ subj = "none"
    /\ idx = 0
    /\ got = Nothing

\* A composition call builds a new object and leaves D alone; what was
\* indexed before is forgotten.
Composed ==
    /\ subj' = "none"
    /\ idx' = 0
    /\ got' = Nothing
    /\ UNCHANGED <<base, assertsOn>>
    /\ UNCHANGED varsNotDataset

\* D.batch(k)
BatchCall(k) ==
    /\ op' = [name |-> "batch", batch_size |-> k]
    /\ view' = batch(base, k)
    /\ Composed

\* D.split(ratio=ratio, position=position)
SplitCall(ratio, position) ==
    /\ op' = [name |-> "split", ratio |-> ratio, position |-> position]
    /\ view' = split(base, ratio, position)
    /\ Composed

\* D.sample(length, replace, seed)
SampleCall(length, replace, seed) ==
    /\ op' = [name |-> "sample", length |-> length, replace |-> replace, seed |-> seed]
    /\ view' = sample(base, length, replace, seed, assertsOn)
    /\ Composed

\* D.permute(seed)
PermuteCall(seed) ==
    /\ op' = [name |-> "permute", seed |-> seed]
    /\ view' = permute(base, seed)
    /\ Composed

\* The datasets at hand.
IsPair(r) == r.kind = "ok" /\ op.name = "split"
Subjects ==
    {"base"} \cup (IF view.kind = "ok" /\ ~IsPair(view) THEN {"view"} ELSE {})
             \cup (IF IsPair(view) THEN {"first", "second"} ELSE {})
Subject(s) ==
    CASE s = "base" -> base
      [] s = "view" -> view.val
      [] s = "first" -> view.val[1]
      [] s = "second" -> view.val[2]

\* subject[i] for an integer i.
IndexCall(s, i) ==
    /\ s \in Subjects
    /\ subj' = s
    /\ idx' = i
    /\ got' = __getitem__(Subject(s), i)
    /\ UNCHANGED <<base, assertsOn, op, view>>
    /\ UNCHANGED varsNotDataset

DatasetNext ==
    \/ \E k \in BatchSizes : BatchCall(k)
    \/ \E r \in Ratios, p \in Positions : SplitCall(r, p)
    \/ \E l \in SampleLengths, rep \in BOOLEAN, seed \in Seeds : SampleCall(l, rep, seed)
    \/ \E seed \in Seeds : PermuteCall(seed)
    \/ \E s \in {"base", "view", "first", "second"}, i \in Indices : IndexCall(s, i)

(***************************************************************************)
(* The other composition operators: map, filter, repeat, zip, collate,     *)
(* join, cache, and indexing by a slice or a list of indices, with or      *)
(* without a field.                                                        *)
(***************************************************************************)
RECURSIVE Ascending(_)
\* The members of a set of integers in increasing order.
Ascending(S) ==
    IF S = {} THEN <<>>
    ELSE LET m == CHOOSE v \in S : \A w \in S : v <= w
         IN <<m>> \o Ascending(S \ {m})

\* _subset_hash(indices) printed in hexadecimal (a digest of the indices):
\* here the indices themselves, so that different lists print differently.
_subset_hash(indices) ==
    Join([t \in 1..Len(indices) |-> ToString(indices[t])], "_")

\* MapDataset.__init__(dataset, func, func_name); no func_name is "".
MapDataset(dataset, func_name) ==
    LET transform == "map" \o (IF func_name # "" THEN "_" \o func_name ELSE "")
    IN DatasetInit("MapDataset", "", "", <<transform>>, NoInfo, dataset)
        @@ [func |-> func_name]

\* Dataset.map(func, func_name=None)
map(self, func_name) == Ok(MapDataset(self, func_name))

\* Dataset.filter(func): passing is the set of indices i with func(self[i]).
filter(self, passing) ==
    LET indices == Ascending(passing)
        func_name == _subset_hash(indices)
    IN Ok(SubDataset(self, indices, <<"filter(" \o func_name \o ")">>))

\* RepeatDataset.__init__(dataset, number_of_repeats)
RepeatDataset(dataset, number_of_repeats) ==
    DatasetInit("RepeatDataset", "", "",
                <<"repeat(" \o ToString(number_of_repeats) \o ")">>, NoInfo, dataset)
        @@ [number_of_repeats |-> number_of_repeats]

\* Dataset.repeat(number_of_repeats)
repeat(self, number_of_repeats) == Ok(RepeatDataset(self, number_of_repeats))

\* ZipDataset.__init__(datasets): a list is handed over as data, which has
\* neither modifiers nor info.
ZipDataset(datasets) ==
    IF \E t \in 1..Len(datasets) : __len__(datasets[t]) # __len__(datasets[1])
    THEN Raise("ValueError")
    ELSE Ok(DatasetInit("ZipDataset",
                        "zip[" \o Join([t \in 1..Len(datasets) |->
                                           identifier(datasets[t])], ",") \o "]",
                        "", <<>>, NoInfo, List(datasets)))

\* Dataset.zip(*other)
zip(self, other) == ZipDataset(<<self>> \o other)

\* dict.update: the items of `new` replace and extend those of `old`.
DictUpdate(old, new) == new @@ old

\* CollateDataset.__init__(zip_dataset, collate_func=None, func_name=None):
\* zip_dataset[0] is read first; the elements of the model are sequences of
\* items of one type, so that the type test of lines 291-292 passes.
CollateDataset(zip_dataset, func_name) ==
    LET batch0 == __getitem__(zip_dataset, 0)
        info == IF zip_dataset.cls = "ZipDataset"
                THEN LET ds == zip_dataset.data.items IN
                     IF Len(ds) = 1 THEN ds[1].info
                     ELSE DictUpdate(ds[1].info, ds[2].info)
                ELSE zip_dataset.info
        modifier == "collate" \o (IF func_name # "" THEN "_" \o func_name ELSE "")
    IN IF batch0.kind = "raise" THEN Raise(batch0.exc)
       ELSE Ok(DatasetInit("CollateDataset", "", "", <<modifier>>, info, zip_dataset))

\* Dataset.collate(collate_func=None, func_name=None)
collate(self, func_name) == CollateDataset(self, func_name)

\* torch.utils.data.ConcatDataset(datasets): not a Dataset of this module, it
\* has no name, subset, modifiers or info.
ConcatDataset(datasets) == [kind |-> "ConcatDataset", datasets |-> datasets]

\* Dataset.join(*other): the info items on which all operands agree.
join(self, other) ==
    LET datasets == <<self>> \o other
        agreed == {k \in DOMAIN self.info :
                      \A t \in 2..Len(datasets) :
                          /\ k \in DOMAIN datasets[t].info
                          /\ datasets[t].info[k] = self.info[k]}
        info == [k \in agreed |-> self.info[k]]
        name == "join(" \o Join([t \in 1..Len(datasets) |->
                                    identifier(datasets[t])], ",") \o ")"
    IN Ok(DatasetInit("Dataset", name, "", <<>>,
                      IF agreed = {} THEN NoInfo ELSE info,
                      ConcatDataset(datasets)))

\* The default modifier of SubDataset for a list of indices (line 434).
IndicesModifier(indices) == "[indices_" \o _subset_hash(indices) \o "]"

\* The modifiers a slice or a list of indices can give, without the closing
\* bracket.
OpenModifiers ==
    {"[" \o ToString(a) \o ".." \o ToString(b) : a, b \in 0..(MaxLen + 1)}
        \cup {"[indices_" \o _subset_hash(ix) :
                 ix \in {<<>>} \cup {<<i>> : i \in 0..MaxLen}
                        \cup {<<i, j>> : i, j \in 0..MaxLen}}
\* s[:-1] for a modifier s of a view.
DropLast(s) == CHOOSE p \in OpenModifiers : p \o "]" = s

\* Lines 112-116 of __getitem__: the view for a slice or a list of indices.
IndexView(self, index) ==
    IF index.kind = "slice" THEN SubrangeDataset(self, index)
    ELSE SubDataset(self, index.items, <<IndicesModifier(index.items)>>)

\* Line 125: the func_name of the field projection, from the modifier popped
\* off the view and the field.
ProjectionName(popped, args) == DropLast(popped) \o Join(args, ", ") \o "]"

(***************************************************************************)
(* The RAM cache and the whole-dataset disk cache. A construction or a     *)
(* read returns, next to its result, the indices of the wrapped dataset it *)
(* read, in order.                                                         *)
(***************************************************************************)
\* max_cache_size is an integer or numpy.inf.
Inf == [kind |-> "inf"]
\* min(len(dataset), max_cache_size)
MinSize(n, max_cache_size) ==
    IF max_cache_size.kind = "inf" THEN n ELSE Min(n, max_cache_size.v)

\* [x for x in dataset] and [dataset[i] for i in range(count)]: the elements
\* 0..count-1, read one after the other.
ReadRange(dataset, count) ==
    [values |-> [t \in 1..count |-> __getitem__(dataset, t - 1).val],
     reads |-> [t \in 1..count |-> t - 1]]

\* CacheDataset.__init__(dataset, max_cache_size)
CacheDataset(dataset, max_cache_size) ==
    LET n == __len__(dataset)
        cache_size == MinSize(n, max_cache_size)
        _cache_all == cache_size = n
        modifier == IF _cache_all THEN "cache"
                    ELSE "(0.." \o ToString(cache_size - 1) \o ")"
        read == IF _cache_all THEN ReadRange(dataset, n)
                ELSE ReadRange(dataset, cache_size)
    IN [result |-> Ok(DatasetInit("CacheDataset", "", "", <<modifier>>, NoInfo, dataset)
                         @@ [_cache_all |-> _cache_all,
                             _cached_data |-> read.values]),
        reads |-> read.reads]

\* CacheDataset.get_example(idx): the mutant reads the wrapped dataset always.
CacheMiss(self, index) == FALSE
CacheHit(self, index) == self._cache_all \/ index < Len(self._cached_data)
CacheGetExample(self, index) ==
    IF CacheHit(self, index)
    THEN [result |-> Ok(self._cached_data[index + 1]), reads |-> <<>>]
    ELSE [result |-> DataItem(self.data, index), reads |-> <<index>>]

\* CacheDataset.__getitem__(idx) for an integer index (lines 117-123).
CacheGetItem(self, i) ==
    LET n == __len__(self)
        j == WrapIndex(i, n)
    IN IF OutOfRange(j, n) THEN [result |-> Raise("IndexError"), reads |-> <<>>]
       ELSE CacheGetExample(self, j)

\* A file: the pickled chunks that load one after the other, and whether
\* bytes that do not unpickle follow them. A truncated file holds fewer
\* chunks than were written, a corrupt one none.
NoFile == [kind |-> "absent"]
File(chunks, garbage) == [kind |-> "file", chunks |-> chunks, garbage |-> garbage]

RECURSIVE Flatten(_)
\* list(itertools.chain(*chunks))
Flatten(chunks) ==
    IF Len(chunks) = 0 THEN <<>> ELSE chunks[1] \o Flatten(Tail(chunks))

RECURSIVE to_chunks(_, _)
\* to_chunks(data): chunks of chunk_size items, then what is left, which may
\* be the empty chunk.
to_chunks(data, chunk_size) ==
    IF Len(data) >= chunk_size
    THEN <<SubSeq(data, 1, chunk_size)>>
             \o to_chunks(SubSeq(data, chunk_size + 1, Len(data)), chunk_size)
    ELSE <<data>>

\* The property identifier read on an object: line 92 reads the slot name,
\* which raises AttributeError until Dataset.__init__ has assigned it.
identifier_property(self) ==
    IF "name" \in DOMAIN self THEN Ok(identifier(self)) ELSE Raise("AttributeError")

\* HDDAndRAMCacheDataset.__init__(dataset, cache_dir, chunk_size) when the
\* cache file is `file`: the result, the file afterwards, the reads.
HDDAndRAMCacheDataset(dataset, cache_dir, chunk_size, file) ==
    LET self == [cache_dir |-> cache_dir]
        id == identifier_property(self)
        n == (__len__(dataset) - 1) \div chunk_size + 1
        loads == file.kind = "file" /\ Len(file.chunks) >= n
        rebuilt == ReadRange(dataset, __len__(dataset))
        data == IF loads THEN Flatten(SubSeq(file.chunks, 1, n)) ELSE rebuilt.values
        built == DatasetInit("HDDAndRAMCacheDataset", "", "", <<"cache_hdd_ram">>,
                             dataset.info, List(data)) @@ self
    IN IF id.kind = "raise" THEN [result |-> id, file |-> file, reads |-> <<>>]
       ELSE [result |-> Ok(built),
             file |-> IF loads THEN file ELSE File(to_chunks(data, chunk_size), FALSE),
             reads |-> IF loads THEN <<>> ELSE rebuilt.reads]

\* A directory path.
Directory(path) == [kind |-> "path", path |-> path]

\* Dataset.cache(max_cache_size=np.inf, directory=None, chunk_size=100)
cache(self, max_cache_size, directory, chunk_size, file) ==
    IF directory # None
    THEN HDDAndRAMCacheDataset(self, directory, chunk_size, file)
    ELSE CacheDataset(self, max_cache_size) @@ [file |-> file]

(***************************************************************************)
(* Composition on the object heap. The attributes modifiers, info and data *)
(* of a dataset object are references to a list, a mapping and the data;   *)
(* heap gives what each reference holds now. A call on D builds the        *)
(* wrapper W (split: W and W2; a field projection: the view I and, over    *)
(* it, W); E is the other operand of zip and join. The wrappers of the     *)
(* call before are dropped.                                                *)
(***************************************************************************)
Objects == {"D", "E", "I", "W", "W2"}
ModRef(o) == o \o ".modifiers"
InfoRef(o) == o \o ".info"
DataRef(o) == o \o ".data"
Refs == UNION {{ModRef(o), InfoRef(o), DataRef(o)} : o \in Objects}
Kept == UNION {{ModRef(o), InfoRef(o), DataRef(o)} : o \in {"D", "E"}}
NoObject == [kind |-> "none"]

\* list(x): a new list holding the items of x. (ListAlias: x itself.)
ListAlias(h, src, fresh) == [heap |-> h, ref |-> src]
ListCopy(h, src, fresh) == [heap |-> [h EXCEPT ![fresh] = h[src]], ref |-> fresh]
\* a += items, in place.
ListExtend(h, ref, items) == [h EXCEPT ![ref] = @ \o items]
\* a.pop(), in place.
ListPop(h, ref) == [h EXCEPT ![ref] = SubSeq(@, 1, Len(@) - 1)]

\* The dataset object o read as a value.
ValueOf(h, o) ==
    [kind |-> "Dataset", cls |-> o.cls, name |-> o.name, subset |-> o.subset,
     modifiers |-> h[o.modifiers], info |-> h[o.info], data |-> h[o.data]]

\* What Dataset.__init__ writes when it builds the object `self`, a dataset
\* of value w, over the object `data` ("" when data is no dataset): line 76
\* copies the modifiers, line 78 extends the copy in place by the modifiers
\* argument, line 79 copies the info into a new NameDict.
Build(h, os, self, w, data) ==
    LET wraps == data # ""
        copied == IF wraps THEN ListCopy(h, os[data].modifiers, ModRef(self))
                  ELSE [heap |-> [h EXCEPT ![ModRef(self)] = <<>>], ref |-> ModRef(self)]
        modifiers == IF wraps
                     THEN SubSeq(w.modifiers, Len(w.data.modifiers) + 1, Len(w.modifiers))
                     ELSE w.modifiers
        h1 == IF modifiers # <<>> THEN ListExtend(copied.heap, copied.ref, modifiers)
              ELSE copied.heap
        h2 == [h1 EXCEPT ![InfoRef(self)] = w.info]
    IN [heap |-> h2,
        objs |-> [os EXCEPT ![self] =
                     [kind |-> "object", cls |-> w.cls, name |-> w.name,
                      subset |-> w.subset, modifiers |-> copied.ref,
                      info |-> InfoRef(self), data |-> data]]]

\* The heap and the objects once the wrappers of the call before are dropped.
Swept == [heap |-> [r \in Refs |-> IF r \in Kept THEN heap[r] ELSE <<>>],
          objs |-> [o \in Objects |-> IF o \in {"D", "E"} THEN objs[o] ELSE NoObject]]

ComposeD == ValueOf(heap, objs["D"])
ComposeE == ValueOf(heap, objs["E"])

Infos == {NoInfo, [class_count |-> 2]}
OtherInfos == {NoInfo, [class_count |-> 2], [class_count |-> 3]}

ComposeInitial ==
    /\ \E n \in 0..MaxLen, m \in 0..1, modifiers \in {<<>>, <<"map_f">>},
          info \in Infos, einfo \in OtherInfos :
          /\ objs = [o \in Objects |->
                        IF o \in {"D", "E"}
                        THEN [kind |-> "object", cls |-> "Dataset", name |-> o,
                              subset |-> "", modifiers |-> ModRef(o),
                              info |-> InfoRef(o), data |-> DataRef(o)]
                        ELSE NoObject]
          /\ heap = [r \in Refs |->
                        CASE r = ModRef("D") -> modifiers
                          [] r = InfoRef("D") -> info
                          [] r = DataRef("D") -> RawData(n)
                          [] r = InfoRef("E") -> einfo
                          [] r = DataRef("E") -> RawData(IF m = 0 THEN n ELSE n + 1)
                          [] OTHER -> <<>>]
    /\ before = ComposeD
    /\ cop = NoOp
    /\ cres = Nothing

\* The call raised, or returned the dataset of value res.val, built over the
\* object `data`; D and E are not handed to anything else.
Returns(res, data) ==
    /\ IF res.kind = "raise"
       THEN /\ cres' = Raise(res.exc)
            /\ heap' = Swept.heap
            /\ objs' = Swept.objs
       ELSE LET b == Build(Swept.heap, Swept.objs, "W", res.val, data) IN
            /\ cres' = Ok(<<"W">>)
            /\ heap' = b.heap
            /\ objs' = b.objs
    /\ UNCHANGED before
    /\ UNCHANGED varsNotCompose

\* D.map(func, func_name=func_name)
ComposeMap(func_name) ==
    /\ cop' = [name |-> "map", func_name |-> func_name]
    /\ Returns(map(ComposeD, func_name), "D")

\* D.filter(func)
ComposeFilter(passing) ==
    /\ passing \subseteq 0..(__len__(ComposeD) - 1)
    /\ cop' = [name |-> "filter", passing |-> passing]
    /\ Returns(filter(ComposeD, passing), "D")

\* D.permute(seed)
ComposePermute(seed) ==
    /\ cop' = [name |-> "permute", seed |-> seed]
    /\ Returns(permute(ComposeD, seed), "D")

\* D.sample(length, replace, seed)
ComposeSample(length, replace, seed) ==
    /\ cop' = [name |-> "sample", length |-> length, replace |-> replace, seed |-> seed]
    /\ Returns(sample(ComposeD, length, replace, seed, TRUE), "D")

\* D.repeat(number_of_repeats)
ComposeRepeat(number_of_repeats) ==
    /\ cop' = [name |-> "repeat", number_of_repeats |-> number_of_repeats]
    /\ Returns(repeat(ComposeD, number_of_repeats), "D")

\* D.batch(batch_size)
ComposeBatch(batch_size) ==
    /\ cop' = [name |-> "batch", batch_size |-> batch_size]
    /\ Returns(batch(ComposeD, batch_size), "D")

\* D.zip(E)
ComposeZip ==
    /\ cop' = [name |-> "zip"]
    /\ Returns(zip(ComposeD, <<ComposeE>>), "")

\* D.collate()
ComposeCollate(func_name) ==
    /\ cop' = [name |-> "collate", func_name |-> func_name]
    /\ Returns(collate(ComposeD, func_name), "D")

\* D.join(E)
ComposeJoin ==
    /\ cop' = [name |-> "join"]
    /\ Returns(join(ComposeD, <<ComposeE>>), "")

\* D.cache(max_cache_size) and D.cache(directory=directory)
ComposeCache(max_cache_size, directory) ==
    /\ cop' = [name |-> "cache", max_cache_size |-> max_cache_size,
               directory |-> directory]
    /\ Returns(cache(ComposeD, max_cache_size, directory, 100, NoFile).result, "D")

\* D.split(ratio=ratio, position=position): two views over D.
ComposeSplit(ratio, position) ==
    /\ cop' = [name |-> "split", ratio |-> ratio, position |-> position]
    /\ LET res == split(ComposeD, ratio, position) IN
       IF res.kind = "raise"
       THEN /\ cres' = Raise(res.exc)
            /\ heap' = Swept.heap
            /\ objs' = Swept.objs
       ELSE LET b1 == Build(Swept.heap, Swept.objs, "W", res.val[1], "D")
                b2 == Build(b1.heap, b1.objs, "W2", res.val[2], "D")
            IN /\ cres' = Ok(<<"W", "W2">>)
               /\ heap' = b2.heap
               /\ objs' = b2.objs
    /\ UNCHANGED before
    /\ UNCHANGED varsNotCompose

\* D[idx] for a slice or a list of indices idx.
ComposeIndex(index) ==
    /\ index.kind = "list" => \A t \in 1..Len(index.items) : index.items[t] < __len__(ComposeD)
    /\ cop' = [name |-> "index", index |-> index]
    /\ Returns(Ok(IndexView(ComposeD, index)), "D")

\* D.__getitem__(idx, field) for a slice or a list of indices idx: the view
\* I, the modifier popped off I's list, and the map over I (line 125).
ComposeProject(index, args) ==
    /\ index.kind = "list" => \A t \in 1..Len(index.items) : index.items[t] < __len__(ComposeD)
    /\ cop' = [name |-> "project", index |-> index, args |-> args]
    /\ LET ds == IndexView(ComposeD, index)
           b1 == Build(Swept.heap, Swept.objs, "I", ds, "D")
           ref == b1.objs["I"].modifiers
           popped == b1.heap[ref][Len(b1.heap[ref])]
           h2 == ListPop(b1.heap, ref)
           mapped == MapDataset([ds EXCEPT !.modifiers = h2[ref]],
                                ProjectionName(popped, args))
           b2 == Build(h2, b1.objs, "W", mapped, "I")
       IN /\ cres' = Ok(<<"W">>)
          /\ heap' = b2.heap
          /\ objs' = b2.objs
    /\ UNCHANGED before
    /\ UNCHANGED varsNotCompose

\* The arguments tried: few of each kind, the lengths of D all of 0..MaxLen.
CacheSizes == {Inf, PyInt(1)}
Slices == {Slice(a, b) : a \in {None, PyInt(1)}, b \in {None, PyInt(MaxLen - 1)}}
IndexLists == {List(<<0>>), List(<<MaxLen - 1, 0>>)}
Passing == {{}, {0}, {0, MaxLen - 1}}

ComposeNext ==
    \/ \E func_name \in {"", "f"} : ComposeMap(func_name)
    \/ \E passing \in Passing : ComposeFilter(passing)
    \/ ComposePermute(0)
    \/ \E l \in {None, PyInt(1), PyInt(MaxLen + 1)}, rep \in BOOLEAN :
          ComposeSample(l, rep, 0)
    \/ ComposeRepeat(2)
    \/ \E k \in {1, MaxLen} : ComposeBatch(k)
    \/ ComposeZip
    \/ \E func_name \in {"", "f"} : ComposeCollate(func_name)
    \/ ComposeJoin
    \/ \E m \in CacheSizes, dir \in {None, Directory("cache")} : ComposeCache(m, dir)
    \/ \E r \in {None, Ratio(1, 2)}, p \in {None, PyInt(0), PyInt(1)} : ComposeSplit(r, p)
    \/ \E index \in Slices \cup IndexLists : ComposeIndex(index)
    \/ \E index \in Slices \cup IndexLists : ComposeProject(index, <<"x">>)

(***************************************************************************)
(* The per-example disk cache (HDDCacheDataset) and cache_data_lazily.     *)
(* The examples of the wrapped dataset are Records of the fields x and y;  *)
(* x changes when the data changes upstream. A cache file is absent, holds *)
(* the pickle of a value, or holds bytes that do not unpickle.             *)
(***************************************************************************)
Example(i, ver) ==
    [x |-> "x" \o ToString(i) \o "v" \o ToString(ver), y |-> "y" \o ToString(i)]
SourceData(n, ver) == List([i \in 1..n |-> Example(i - 1, ver)])
Source(n, ver) == DatasetInit("Dataset", "D", "", <<>>, NoInfo, SourceData(n, ver))

Absent == [kind |-> "absent", value |-> "none"]
Pickled(v) == [kind |-> "pickle", value |-> v]
Corrupted == [kind |-> "corrupt", value |-> "garbage"]
\* _get_cache_path(idx, field): a path is the pair of the index and the
\* field, "" for the file of a whole example.
_get_cache_path(index, field) == <<index, field>>
Paths == {_get_cache_path(i, f) : i \in 0..(MaxExamples - 1), f \in {"", "x", "y"}}
EmptyDir == [p \in Paths |-> Absent]

\* Lines 398-403: the file exists and pickle.load returns.
Loads(content) == content.kind = "pickle"
\* Lines 403 and 407-408: a file that did not load is removed, and the
\* example is pickled into the file, opened anew. (SkipWrite: nothing is
\* written. WriteNew: a file that is there is kept as it is.)
SkipWrite(fs, cache_path, example) == fs
WriteNew(fs, cache_path, example) ==
    IF fs[cache_path].kind = "absent"
    THEN [fs EXCEPT ![cache_path] = Pickled(example)]
    ELSE fs
WriteFile(fs, cache_path, example) == [fs EXCEPT ![cache_path] = Pickled(example)]

\* HDDCacheDataset._get_example_or_field(idx, field) when the directory
\* holds fs: the value returned, the files afterwards, the reads of D.
_get_example_or_field(self, fs, index, field) ==
    LET cache_path == _get_cache_path(index, field)
    IN IF Loads(fs[cache_path])
       THEN [value |-> fs[cache_path].value, files |-> fs, reads |-> <<>>]
       ELSE Apply(LAMBDA whole :
                      Apply(LAMBDA example :
                                [value |-> example,
                                 files |-> WriteFile(fs, cache_path, example),
                                 reads |-> <<index>>],
                            IF field # "" THEN whole[field] ELSE whole),
                  DataItem(self.data, index).val)

\* A Record of lazy fields with every field evaluated, in the order of the
\* keys (what pickling a Record and comparing it come to).
EvaluateRecord(self, fs, index) ==
    Apply(LAMBDA rx :
              Apply(LAMBDA ry : [value |-> [x |-> rx.value, y |-> ry.value],
                                 files |-> ry.files,
                                 reads |-> rx.reads \o ry.reads],
                    _get_example_or_field(self, rx.files, index, self.keys[2])),
          _get_example_or_field(self, fs, index, self.keys[1]))

\* HDDCacheDataset.get_example(idx), the fields evaluated.
HddGetExample(self, fs, index) ==
    IF self.separate_fields THEN EvaluateRecord(self, fs, index)
    ELSE _get_example_or_field(self, fs, index, "")

\* HDDCacheDataset.__getitem__(idx) for an integer idx (lines 117-123).
HddGetItem(self, fs, i) ==
    LET n == __len__(self)
        j == WrapIndex(i, n)
    IN IF OutOfRange(j, n)
       THEN [value |-> Raise("IndexError"), files |-> fs, reads |-> <<>>]
       ELSE Apply(LAMBDA r : [value |-> Ok(r.value), files |-> r.files, reads |-> r.reads],
                  HddGetExample(self, fs, j))

consistency_check_sample_count == 16

\* Line 385: the pickles of dataset[ii] and of self[ii] differ. (The mutant
\* never finds a difference.)
NeverDiffers(fresh, cached) == FALSE
Differs(fresh, cached) == fresh # cached

RECURSIVE ConsistencyCheck(_, _, _, _)
\* Lines 383-390, from sample i on, after the reads `reads`: a difference
\* deletes the directory, makes it anew and ends the loop.
ConsistencyCheck(self, fs, i, reads) ==
    IF i = consistency_check_sample_count
    THEN [files |-> fs, reads |-> reads, warnings |-> 0]
    ELSE LET ii == (i * __len__(self.data)) \div consistency_check_sample_count
             fresh == __getitem__(self.data, ii)
         IN Apply(LAMBDA cached :
                      IF Differs(fresh.val, cached.value.val)
                      THEN [files |-> EmptyDir,
                            reads |-> reads \o <<ii>> \o cached.reads,
                            warnings |-> 1]
                      ELSE ConsistencyCheck(self, cached.files, i + 1,
                                            reads \o <<ii>> \o cached.reads),
                  HddGetItem(self, fs, ii))

\* HDDCacheDataset.__init__(dataset, cache_dir, separate_fields) when the
\* directory exists or not and holds fs: the result, the directory and its
\* files afterwards, the reads of D, the warnings. An empty dataset makes
\* dataset[0] raise IndexError, at line 379 or at line 385.
HDDCacheDataset(dataset, separate_fields, exists, fs) ==
    LET modifier == "cache_hdd" \o (IF separate_fields THEN "_s" ELSE "")
        self == DatasetInit("HDDCacheDataset", "", "", <<modifier>>, NoInfo, dataset)
                    @@ [separate_fields |-> separate_fields, keys |-> <<"x", "y">>]
        dir == IF exists THEN fs ELSE EmptyDir
        keyed == IF separate_fields THEN <<0, 0>> ELSE <<>>
    IN IF __len__(dataset) = 0
       THEN [result |-> Raise("IndexError"),
             exists |-> IF separate_fields THEN exists ELSE TRUE,
             files |-> IF separate_fields THEN fs ELSE dir,
             reads |-> <<>>, warnings |-> 0]
       ELSE Apply(LAMBDA check :
                      [result |-> Ok(self), exists |-> TRUE, files |-> check.files,
                       reads |-> check.reads, warnings |-> check.warnings],
                  ConsistencyCheck(self, dir, 0, keyed))

\* Dataset.cache_hdd(directory, separate_fields=True)
cache_hdd(self, separate_fields, exists, fs) ==
    HDDCacheDataset(self, separate_fields, exists, fs)

\* HDDCacheDataset.delete_cache(): the directory and what it holds are
\* removed.
delete_cache(fs) == [exists |-> FALSE, files |-> EmptyDir]

\* The attributes of a Dataset object: its slots, what the class defines
\* (lines 55-253) and what it inherits from Sequence.
DatasetAttributes ==
    {"name", "subset", "modifiers", "info", "data", "download_if_necessary",
     "download", "identifier", "__getitem__", "__len__", "__str__", "__repr__",
     "__add__", "get_example", "approx_example_sizeof", "batch", "sample",
     "cache", "cache_hdd", "collate", "filter", "map", "permute", "repeat",
     "split", "join", "random", "zip", "clear_hdd_cache", "_print",
     "__contains__", "__iter__", "__reversed__", "index", "count"}

\* path.get_size(cache_dir): every file of a field weighs one unit.
get_size(fs) == Cardinality({p \in Paths : fs[p].kind # "absent"})

\* transform(ds) of cache_data_lazily(parted_dataset, cache_dir,
\* min_free_space) when the disk has free_space units left: an example of two
\* fields is estimated at two units.
transform(ds, min_free_space, free_space, exists, fs) ==
    LET elem_size == Len(<<"x", "y">>)
        size == __len__(ds) * elem_size
        deleted == delete_cache(fs)
    IN IF "example_size" \notin DatasetAttributes
       THEN [result |-> Raise("AttributeError"), exists |-> exists, files |-> fs,
             reads |-> <<>>, warnings |-> 0]
       ELSE Apply(LAMBDA ds_cached :
                      IF ds_cached.result.kind = "raise" THEN ds_cached
                      ELSE IF 10 * get_size(ds_cached.files) > size
                              \/ free_space + get_size(ds_cached.files) - size
                                     >= min_free_space
                      THEN ds_cached
                      ELSE [result |-> Ok(ds), exists |-> deleted.exists,
                            files |-> deleted.files, reads |-> ds_cached.reads,
                            warnings |-> ds_cached.warnings + 1],
                  cache_hdd(ds, TRUE, exists, fs))

(***************************************************************************)
(* The cache state machine. A behaviour studies one kind of cache over a   *)
(* dataset D: the RAM cache, the whole-dataset disk cache or the           *)
(* per-example disk cache. Besides the calls of the program, a file can be *)
(* left or damaged from outside and the data behind D can change (a new    *)
(* run of the program then builds its objects anew).                       *)
(***************************************************************************)
\* How many times each index occurs in a sequence of reads.
Counts(reads) ==
    [i \in 0..(MaxExamples - 1) |->
        Cardinality({t \in 1..Len(reads) : reads[t] = i})]
NoReads == Counts(<<>>)

CacheInitial ==
    /\ studied \in {"ram", "whole", "hdd"}
    /\ version = 0
    /\ csrc \in {Source(n, 0) : n \in 0..MaxExamples}
    /\ ccache = Nothing
    /\ wfile = NoFile
    /\ cdir = FALSE
    /\ files = EmptyDir
    /\ served = {}
    /\ faults = 0
    /\ clast = NoOp
    /\ cout = Nothing
    /\ creads = NoReads
    /\ cwarn = 0

\* D.cache(max_cache_size)
RamCache(max_cache_size) ==
    /\ studied = "ram"
    /\ \E r \in {cache(csrc, max_cache_size, None, 100, wfile)} :
       /\ ccache' = r.result.val
       /\ creads' = Counts(r.reads)
    /\ clast' = [name |-> "cache", max_cache_size |-> max_cache_size]
    /\ cout' = Ok("cache")
    /\ cwarn' = 0
    /\ UNCHANGED <<studied, csrc, version, wfile, cdir, files, served, faults>>
    /\ UNCHANGED varsNotCache

\* cache[i] on the RAM cache
RamGet(i) ==
    /\ studied = "ram"
    /\ ccache # Nothing
    /\ \E r \in {CacheGetItem(ccache, i)} :
       /\ cout' = r.result
       /\ creads' = Counts(r.reads)
    /\ clast' = [name |-> "get", index |-> i]
    /\ cwarn' = 0
    /\ UNCHANGED <<studied, csrc, version, ccache, wfile, cdir, files, served, faults>>
    /\ UNCHANGED varsNotCache

\* A file that can lie at the path of the whole-dataset cache: the first k
\* of the chunks once written for D with chunk size cs, with or without
\* bytes that do not unpickle after them.
ChunkSizes == 1..MaxExamples
WholeFile(cs, k, garbage) ==
    File(SubSeq(to_chunks(csrc.data.items, cs), 1,
                Min(k, Len(to_chunks(csrc.data.items, cs)))), garbage)

\* Something outside the program leaves a file at the cache path.
LeaveFile(file) ==
    /\ studied = "whole"
    /\ file # wfile
    /\ wfile' = file
    /\ clast' = [name |-> "leave"]
    /\ cout' = Nothing
    /\ creads' = NoReads
    /\ cwarn' = 0
    /\ UNCHANGED <<studied, csrc, version, ccache, cdir, files, served, faults>>
    /\ UNCHANGED varsNotCache

\* D.cache(directory=directory, chunk_size=chunk_size)
WholeCache(chunk_size) ==
    /\ studied = "whole"
    /\ \E r \in {cache(csrc, Inf, Directory("cache"), chunk_size, wfile)} :
       /\ ccache' = IF r.result.kind = "ok" THEN r.result.val ELSE ccache
       /\ cout' = IF r.result.kind = "ok" THEN Ok("cache") ELSE r.result
       /\ wfile' = r.file
       /\ creads' = Counts(r.reads)
    /\ clast' = [name |-> "cache", chunk_size |-> chunk_size]
    /\ cwarn' = 0
    /\ UNCHANGED <<studied, csrc, version, cdir, files, served, faults>>
    /\ UNCHANGED varsNotCache

\* Line 384: the indices the consistency check samples in a dataset of n
\* examples.
SampleIndices(n) ==
    {(i * n) \div consistency_check_sample_count :
        i \in 0..(consistency_check_sample_count - 1)}

\* Whether a file of index j holds the pickle of a value that is not D's.
Stale(fs, j) ==
    \E f \in {"", "x", "y"} :
        /\ fs[_get_cache_path(j, f)].kind = "pickle"
        /\ fs[_get_cache_path(j, f)].value #
              (IF f = "" THEN csrc.data.items[j + 1] ELSE csrc.data.items[j + 1][f])

\* D.cache_hdd(directory, separate_fields): one directory per behaviour,
\* hence one value of separate_fields once an object exists.
HddCache(separate_fields) ==
    /\ studied = "hdd"
    /\ ccache # Nothing => ccache.separate_fields = separate_fields
    /\ cdir => (\A p \in Paths : files[p].kind # "absent" => (p[2] # "") = separate_fields)
    /\ \E r \in {cache_hdd(csrc, separate_fields, cdir, files)} :
       /\ ccache' = IF r.result.kind = "ok" THEN r.result.val ELSE ccache
       /\ cout' = IF r.result.kind = "ok" THEN Ok("cache") ELSE r.result
       /\ cdir' = r.exists
       /\ files' = r.files
       /\ creads' = Counts(r.reads)
       /\ cwarn' = r.warnings
    /\ clast' = [name |-> "cache_hdd", separate_fields |-> separate_fields,
                 stale |-> \E j \in SampleIndices(__len__(csrc)) : Stale(files, j)]
    /\ UNCHANGED <<studied, csrc, version, wfile, served, faults>>
    /\ UNCHANGED varsNotCache

\* cache[i] on the per-example disk cache, the fields evaluated.
HddGet(i) ==
    /\ studied = "hdd"
    /\ ccache # Nothing
    /\ cdir
    /\ \E r \in {HddGetItem(ccache, files, i)}, j \in {WrapIndex(i, __len__(ccache))} :
          /\ cout' = r.value
          /\ files' = r.files
          /\ creads' = Counts(r.reads)
          /\ served' = IF r.value.kind = "ok" /\ faults = 0 THEN served \cup {j} ELSE served
          /\ clast' = [name |-> "get", index |-> i,
                       again |-> j \in served,
                       fresh |-> clast.name = "cache_hdd",
                       corrupt |-> {p \in Paths : p[1] = j /\ files[p].kind = "corrupt"}]
    /\ cwarn' = 0
    /\ UNCHANGED <<studied, csrc, version, ccache, wfile, cdir, faults>>
    /\ UNCHANGED varsNotCache

\* A cache file is damaged from outside.
CorruptFile(p) ==
    /\ studied = "hdd"
    /\ faults < MaxFaults
    /\ files[p].kind = "pickle"
    /\ files' = [files EXCEPT ![p] = Corrupted]
    /\ faults' = faults + 1
    /\ served' = {}
    /\ clast' = [name |-> "corrupt", path |-> p]
    /\ cout' = Nothing
    /\ creads' = NoReads
    /\ cwarn' = 0
    /\ UNCHANGED <<studied, csrc, version, ccache, wfile, cdir>>
    /\ UNCHANGED varsNotCache

\* The data behind D changes upstream; the next run of the program has a
\* new D of the same identifier and no cache object yet.
ChangeSource ==
    /\ studied = "hdd"
    /\ faults < MaxFaults
    /\ __len__(csrc) > 0
    /\ version' = version + 1
    /\ csrc' = Source(__len__(csrc), version + 1)
    /\ ccache' = Nothing
    /\ faults' = faults + 1
    /\ served' = {}
    /\ clast' = [name |-> "change"]
    /\ cout' = Nothing
    /\ creads' = NoReads
    /\ cwarn' = 0
    /\ UNCHANGED <<studied, wfile, cdir, files>>
    /\ UNCHANGED varsNotCache

\* One part of cache_data_lazily(parted_dataset, cache_dir, min_free_space)
\* is evaluated: transform(D).
CacheDataLazily(min_free_space, free_space) ==
    /\ studied = "hdd"
    /\ cdir => (\A p \in Paths : files[p].kind # "absent" => p[2] # "")
    /\ \E r \in {transform(csrc, min_free_space, free_space, cdir, files)} :
       /\ cout' = r.result
       /\ cdir' = r.exists
       /\ files' = r.files
       /\ creads' = Counts(r.reads)
       /\ cwarn' = r.warnings
    /\ clast' = [name |-> "cache_data_lazily", min_free_space |-> min_free_space,
                 free_space |-> free_space]
    /\ UNCHANGED <<studied, csrc, version, ccache, wfile, served, faults>>
    /\ UNCHANGED varsNotCache

CacheNext ==
    \/ \E m \in {Inf} \cup {PyInt(v) : v \in 0..(MaxExamples + 1)} : RamCache(m)
    \/ \E i \in (0 - MaxExamples - 1)..MaxExamples : RamGet(i)
    \/ \E cs \in ChunkSizes, k \in 0..(MaxExamples + 1), garbage \in BOOLEAN :
          LeaveFile(WholeFile(cs, k, garbage))
    \/ \E chunk_size \in ChunkSizes : WholeCache(chunk_size)
    \/ \E separate_fields \in BOOLEAN : HddCache(separate_fields)
    \/ \E i \in (0 - MaxExamples - 1)..MaxExamples : HddGet(i)
    \/ \E p \in Paths : CorruptFile(p)
    \/ ChangeSource
    \/ \E min_free_space \in 0..MaxSpace, free_space \in 0..MaxSpace :
          CacheDataLazily(min_free_space, free_space)

(***************************************************************************)
(* perturb_iterative (attacks.py, lines 186-288). A batch is a sequence of *)
(* examples of one coordinate each; the labels y take no part in the       *)
(* control flow and are left out. The forward pass and the loss are an     *)
(* external collaborator: predict names the gradient it yields. The        *)
(* success predicate is any mask over the examples still worked on.        *)
(***************************************************************************)
\* A local variable that no statement has assigned yet.
Unbound == [kind |-> "unbound"]

\* The gradient of the loss in delta for the example at position e of the
\* batch, at the pass of iteration t.
PgdModels == {"ascend", "descend", "alternate"}
Gradient(predict, t, e) ==
    IF predict = "ascend" THEN 1
    ELSE IF predict = "descend" THEN 0 - 1
    ELSE IF (t + e) % 2 = 0 THEN 1 ELSE 0 - 1

\* torch.zeros_like
Zeros(n) == [k \in 1..n |-> 0]
\* g.sign()
Sign(v) == IF v > 0 THEN 1 ELSE IF v < 0 THEN 0 - 1 ELSE 0
\* success == False
Not(mask) == [k \in 1..Len(mask) |-> ~mask[k]]
\* mask.all()
All(mask) == \A k \in 1..Len(mask) : mask[k]

RECURSIVE Select(_, _)
\* t[mask]: the elements of t where mask is True, in order.
Select(t, mask) ==
    IF Len(t) = 0 THEN <<>>
    ELSE (IF mask[1] THEN <<t[1]>> ELSE <<>>) \o Select(Tail(t), Tail(mask))

\* t[indices] = values, the indices being positions counted from 0.
Assign(t, indices, values) ==
    [k \in 1..Len(t) |->
        IF \E m \in 1..Len(indices) : indices[m] = k - 1
        THEN values[CHOOSE m \in 1..Len(indices) : indices[m] = k - 1]
        ELSE t[k]]

\* ops.batch.project_to_p_ball(delta, eps, p=np.inf)
project_to_p_ball(d, eps) == [k \in 1..Len(d) |-> Min(Max(d[k], 0 - eps), eps)]
\* torch.clamp(t, *clip_bounds) on a batch
BatchClamp(t, bounds) == [k \in 1..Len(t) |-> Min(Max(t[k], bounds.lo), bounds.hi)]
BatchAdd(a, b) == [k \in 1..Len(a) |-> a[k] + b[k]]
BatchSub(a, b) == [k \in 1..Len(a) |-> a[k] - b[k]]

\* Lines 257-262: one update of delta for p = inf. (StepOnly: line 258 alone,
\* without the projection and the clamp of lines 259-261.)
StepOnly(xb, d, grad, step_size, eps, clip_bounds) ==
    [k \in 1..Len(d) |-> d[k] + Sign(grad[k]) * step_size]
UpdateDelta(xb, d, grad, step_size, eps, clip_bounds) ==
    LET stepped == [k \in 1..Len(d) |-> d[k] + Sign(grad[k]) * step_size]
        projected == project_to_p_ball(stepped, eps)
    IN IF clip_bounds = None THEN projected
       ELSE BatchSub(BatchClamp(BatchAdd(xb, projected), clip_bounds), xb)

\* The arguments of a call: a batch of 1..MaxBatch examples.
PgdBounds == [kind |-> "bounds", lo |-> 0, hi |-> MaxVal]
PgdBatches(n) == {[k \in 1..n |-> (b + k - 1) % (MaxVal + 1)] : b \in {0, MaxVal}}
\* A call of perturb_iterative itself, with any initial delta.
DirectArgs ==
    UNION {[caller : {"perturb_iterative"},
            rand_init : {FALSE},
            x : PgdBatches(n),
            delta_init : [1..n -> {0 - 1, 0, 1}],
            predict : PgdModels,
            step_count : 0..MaxSteps,
            eps : {0, 1},
            step_size : {1},
            p : {Inf, PyInt(1), PyInt(2)},
            clip_bounds : {None, PgdBounds},
            stop_on_success : BOOLEAN] : n \in 1..MaxBatch}

\* rand_init_delta(x, p, eps, bounds), lines 160-180, `drawn` being what
\* uniform_sample_from_p_ball drew from the unit ball.
rand_init_delta(xb, eps, bounds, drawn) ==
    LET scaled == [k \in 1..Len(xb) |-> drawn[k] * eps]
    IN IF bounds = None THEN BatchAdd(xb, scaled)
       ELSE BatchSub(BatchClamp(BatchAdd(xb, scaled), bounds), xb)

\* PGDAttack._perturb(x, y), lines 312-319: the arguments it hands to
\* perturb_iterative.
PGDAttack_perturb(self, xb, drawn) ==
    [caller |-> "PGDAttack",
     rand_init |-> self.rand_init,
     x |-> xb,
     delta_init |-> IF self.rand_init
                    THEN rand_init_delta(xb, self.eps, self.clip_bounds, drawn)
                    ELSE Zeros(Len(xb)),
     predict |-> self.model,
     step_count |-> self.step_count,
     eps |-> self.eps,
     step_size |-> self.step_size,
     p |-> self.p,
     clip_bounds |-> self.clip_bounds,
     stop_on_success |-> self.stop_on_success]

\* The PGDAttack objects (lines 292-310) and the calls of their _perturb.
PgdAttacks ==
    [model : PgdModels, step_count : 0..MaxSteps, eps : {0, 1}, step_size : {1},
     p : {Inf, PyInt(1), PyInt(2)}, clip_bounds : {None, PgdBounds},
     stop_on_success : BOOLEAN, rand_init : BOOLEAN]
AttackArgs ==
    UNION {{PGDAttack_perturb(self, xb, drawn) :
               self \in PgdAttacks, xb \in PgdBatches(n),
               drawn \in [1..n -> {0 - 1, 0, 1}]} : n \in 1..MaxBatch}

PgdArgs == DirectArgs \cup AttackArgs
NoArgs == [kind |-> "none"]

\* Lines 213-223: the locals before the loop.
PgdInitial ==
    /\ pgd \in PgdArgs
    /\ ppc = "loop"
    /\ step = Unbound
    /\ xw = pgd.x
    /\ delta = pgd.delta_init
    /\ dgrad = Zeros(Len(pgd.x))
    /\ origin = [k \in 1..Len(pgd.x) |-> k - 1]
    /\ xs = <<pgd.x>>
    /\ deltas = <<pgd.delta_init>>
    /\ successes = <<>>
    /\ origins = <<>>
    /\ success = <<>>
    /\ evals = 0
    /\ updates = 0
    /\ pout = NoOutcome
    /\ found = [k \in 1..Len(pgd.x) |-> None]

\* Lines 252-254: all the examples worked on are successful, and the loop
\* is left. (NeverBreaks: it is not left.)
NeverBreaks(filtered, mask) == FALSE
Breaks(filtered, mask) == filtered /\ All(mask)

\* The iteration the for statement of line 232 enters next.
NextStep == IF step = Unbound THEN 0 ELSE step.v + 1

\* History of line 242: for each position of the batch, the delta its example
\* had in the evaluation where is_success_for_stopping found it successful,
\* None while it has not been.
FoundAt(seen, origin_, mask, d) ==
    [i \in 1..Len(seen) |->
        IF \E k \in 1..Len(mask) : origin_[k] = i - 1 /\ mask[k]
        THEN PyInt(d[CHOOSE k \in 1..Len(mask) : origin_[k] = i - 1 /\ mask[k]])
        ELSE seen[i]]

\* Lines 232-275: one iteration of the loop, the success predicate (when
\* there is one) answering `mask`.
PgdIterate(mask) ==
    /\ ppc = "loop"
    /\ NextStep < pgd.step_count
    /\ Len(mask) = (IF pgd.stop_on_success THEN Len(xw) ELSE 0)
    /\ step' = PyInt(NextStep)
    /\ evals' = evals + 1
    /\ success' = mask
    /\ LET accumulated == [k \in 1..Len(delta) |->
                              dgrad[k] + Gradient(pgd.predict, NextStep, origin[k])]
           fail == Not(mask)
           filtered == pgd.stop_on_success /\ ~All(fail)
           x1 == IF filtered THEN Select(xw, fail) ELSE xw
           d1 == IF filtered THEN Select(delta, fail) ELSE delta
           grad == IF filtered THEN Select(accumulated, fail) ELSE accumulated
           o1 == IF filtered THEN Select(origin, fail) ELSE origin
           updated == UpdateDelta(x1, d1, grad, pgd.step_size, pgd.eps, pgd.clip_bounds)
           broke == Breaks(filtered, mask)
           raises == ~broke /\ pgd.p # Inf
           d2 == IF broke \/ raises THEN d1 ELSE updated
       IN /\ xw' = x1
          /\ origin' = o1
          /\ delta' = d2
          /\ dgrad' = IF filtered THEN Zeros(Len(x1)) ELSE accumulated
          /\ xs' = IF filtered THEN Append(xs, x1) ELSE xs
          /\ successes' = IF filtered THEN Append(successes, mask) ELSE successes
          /\ origins' = IF filtered THEN Append(origins, o1) ELSE origins
          /\ deltas' = IF filtered THEN Append(deltas, d2)
                       ELSE [deltas EXCEPT ![Len(deltas)] = d2]
          /\ updates' = IF broke \/ raises THEN updates ELSE updates + 1
          /\ ppc' = IF broke THEN "after" ELSE IF raises THEN "done" ELSE "loop"
          /\ pout' = IF raises THEN Raised("NotImplementedError") ELSE pout
          /\ found' = FoundAt(found, origin, mask, delta)
    /\ UNCHANGED pgd
    /\ UNCHANGED varsNotPgd

\* Lines 276-277: the loop ran out of iterations, and its else clause adds
\* one to step; with step_count = 0 no iteration has assigned step.
PgdExhaust ==
    /\ ppc = "loop"
    /\ NextStep >= pgd.step_count
    /\ IF step = Unbound
       THEN /\ pout' = Raised("UnboundLocalError")
            /\ ppc' = "done"
            /\ step' = step
       ELSE /\ step' = PyInt(step.v + 1)
            /\ ppc' = "after"
            /\ pout' = pout
    /\ UNCHANGED <<pgd, xw, delta, dgrad, origin, xs, deltas, successes, origins,
                   success, evals, updates, found>>
    /\ UNCHANGED varsNotPgd

RECURSIVE Merge(_, _, _, _, _)
\* Lines 283-285, from i on: delta[origins[i][successes[i + 1]]] =
\* deltas[i][successes[i + 1]], the lists counted from 0.
Merge(d, i, origins_, successes_, deltas_) ==
    IF i >= Len(successes_) - 1 THEN d
    ELSE Merge(Assign(d, Select(origins_[i + 1], successes_[i + 2]),
                      Select(deltas_[i + 1], successes_[i + 2])),
               i + 1, origins_, successes_, deltas_)

\* Lines 279-288: the deltas of the examples that succeeded are written
\* back, and x + delta is returned, clamped when there are clip bounds.
PgdReturn ==
    /\ ppc = "after"
    /\ ppc' = "done"
    /\ IF pgd.stop_on_success /\ successes = <<>>
       THEN /\ pout' = Raised("IndexError")
            /\ UNCHANGED <<xw, delta, xs, deltas, successes>>
       ELSE LET filled == IF pgd.stop_on_success
                          THEN [successes EXCEPT ![Len(successes)] =
                                   [k \in 1..Len(successes[Len(successes)]) |-> TRUE]]
                          ELSE successes
                x0 == IF pgd.stop_on_success THEN Head(xs) ELSE xw
                d0 == IF pgd.stop_on_success
                      THEN Merge(Head(deltas), 0, origins, filled, Tail(deltas))
                      ELSE delta
                sum == BatchAdd(x0, d0)
            IN /\ successes' = filled
               /\ xw' = x0
               /\ delta' = d0
               /\ xs' = IF pgd.stop_on_success THEN Tail(xs) ELSE xs
               /\ deltas' = IF pgd.stop_on_success THEN Tail(deltas) ELSE deltas
               /\ pout' = Returned(IF pgd.clip_bounds = None THEN sum
                                   ELSE BatchClamp(sum, pgd.clip_bounds))
    /\ UNCHANGED <<pgd, step, dgrad, origin, origins, success, evals, updates,
                   found>>
    /\ UNCHANGED varsNotPgd

\* The answers of the success predicate over n examples.
Masks(n) == [1..n -> BOOLEAN]

PgdNext ==
    \/ \E n \in 0..MaxBatch : \E mask \in Masks(n) : PgdIterate(mask)
    \/ PgdExhaust
    \/ PgdReturn

(***************************************************************************)
(* CarliniWagnerL2Attack (attacks.py, lines 322-502)                       *)
(*                                                                         *)
(* A coefficient or a squared distance is the number (n / Scale) * 10^e,   *)
(* kept exactly: halving consumes one of the REPEAT_STEP binary digits of   *)
(* Scale, or a decimal one when none is left. Rounding of floats is not    *)
(* modelled. The model, the optimizer and the distance function are        *)
(* external: each forward pass answers, per example, any label and any     *)
(* distance, and the loss comparison of line 491 any truth value.          *)
(*                                                                         *)
(* __init__ never returns an object (line 376). The methods are followed   *)
(* both from a call of the constructor and on an object that has the       *)
(* attributes of lines 377-388, as a subclass with its own __init__ gives   *)
(* it; `assigned` tells whether targeted, clip_min and clip_max, which no   *)
(* line of the class assigns, were given to it as well.                    *)
(***************************************************************************)
REPEAT_STEP == 10
NUM_CHECKS == 10
INVALID_LABEL == 0 - 1
Scale == 2 ^ REPEAT_STEP

RECURSIVE Norm(_)
\* The one representation of a number: n = 0 with e = 0, or n not a
\* multiple of 10.
Norm(f) ==
    IF f.n = 0 THEN [n |-> 0, e |-> 0]
    ELSE IF f.n % 10 = 0 THEN Norm([n |-> f.n \div 10, e |-> f.e + 1])
    ELSE f
\* m * 10^e
Float(m, e) == Norm([n |-> m * Scale, e |-> e])
\* a < b, for numbers that are not negative
Lt(a, b) ==
    IF b.n = 0 THEN FALSE
    ELSE IF a.n = 0 THEN TRUE
    ELSE IF a.e = b.e THEN a.n < b.n
    ELSE IF a.e > b.e
         THEN a.e - b.e < 10 /\ a.n <= (b.n - 1) \div (10 ^ (a.e - b.e))
         ELSE b.e - a.e >= 10 \/ a.n \div (10 ^ (b.e - a.e)) < b.n
Le(a, b) == ~Lt(b, a)
\* min(a, b) and max(a, b) of Python: the first argument when neither is less
FMin(a, b) == IF Lt(b, a) THEN b ELSE a
FMax(a, b) == IF Lt(a, b) THEN b ELSE a
\* (a + b) / 2
Mid(a, b) ==
    LET e0 == IF a.n = 0 THEN b.e ELSE IF b.n = 0 THEN a.e ELSE Min(a.e, b.e)
        total == (IF a.n = 0 THEN 0 ELSE a.n * (10 ^ (a.e - e0)))
                 + (IF b.n = 0 THEN 0 ELSE b.n * (10 ^ (b.e - e0)))
    IN IF total % 2 = 0 THEN Norm([n |-> total \div 2, e |-> e0])
       ELSE Norm([n |-> total * 5, e |-> e0 - 1])
\* a * 10
Mul10(a) == Norm([n |-> a.n, e |-> a.e + 1])

CARLINI_L2DIST_UPPER == Float(1, 10)
CARLINI_COEFF_UPPER == Float(1, 10)
UPPER_CHECK == Float(1, 9)

CwLabels == {0, 1}
Clean == [kind |-> "clean"]
\* The adversarial image of inner iteration ii of binary-search step s.
AdvImg(s, ii) == [kind |-> "adv", outer |-> s, inner |-> ii]

\* What a forward pass (lines 413-423) answers for one example: the label
\* with the largest logit and the squared distance of adv from the input.
Obs == [label : CwLabels, l2distsq : {Float(d, 0) : d \in 1..MaxDist}]

\* The outcome of a call that answers a truth value.
Yes == "yes"
No == "no"

\* self.is_success(pred, label) on labels. Attack.__init__'s default (line
\* 100, lines 55-56) takes argmax(dim=1) of pred, which has no dimension 1.
is_success(self, pred, label) ==
    IF self.is_success = "default" THEN "IndexError"
    ELSE IF pred # label THEN Yes ELSE No

\* Lines 394-410 with is_logits = False.
IsSuccessfulLabel(self, pred, label) ==
    IF pred = INVALID_LABEL THEN No ELSE is_success(self, pred, label)

\* Lines 394-410 with is_logits = True and confidence 0: pred is the label
\* with the largest logit.
IsSuccessfulLogits(self, label_out, label) ==
    IF ~self.assigned THEN "AttributeError"
    ELSE is_success(self, label_out, label)

\* Lines 430-445 for one example: t is the example's trackers, o what the
\* forward pass answered for it. (OrEqual: <= in place of < at line 442.)
OrEqual(a, b) == Le(a, b)
StrictlyLess(a, b) == Lt(a, b)
UpdateIfSmaller(t, o, adv_img, successful) ==
    LET m1 == Lt(o.l2distsq, t.cur_l2distsq) /\ successful
        m2 == StrictlyLess(o.l2distsq, t.final_l2distsq) /\ successful
    IN [cur_l2distsq |-> IF m1 THEN o.l2distsq ELSE t.cur_l2distsq,
        cur_label |-> IF m1 THEN o.label ELSE t.cur_label,
        final_l2distsq |-> IF m2 THEN o.l2distsq ELSE t.final_l2distsq,
        final_label |-> IF m2 THEN o.label ELSE t.final_label,
        final_adv |-> IF m2 THEN adv_img ELSE t.final_adv]

\* Writes to loss_coeffs[ii] and to coeff_upper_bound[ii]: after line 486
\* the two names are one tensor.
SetCoeff(b, ii, v) ==
    [b EXCEPT !.loss_coeffs[ii] = v,
              !.coeff_upper_bound[ii] = IF b.aliased THEN v ELSE @]
SetUpper(b, ii, v) ==
    [b EXCEPT !.coeff_upper_bound[ii] = v,
              !.loss_coeffs[ii] = IF b.aliased THEN v ELSE @]

\* Lines 452-463: the body of the loop for example ii, `successful` being
\* what line 453 answered.
UpdateOne(b, ii, successful) ==
    IF successful
    THEN LET b1 == SetUpper(b, ii, FMin(b.coeff_upper_bound[ii], b.loss_coeffs[ii]))
         IN IF Lt(b1.coeff_upper_bound[ii], UPPER_CHECK)
            THEN SetCoeff(b1, ii, Mid(b1.coeff_lower_bound[ii], b1.coeff_upper_bound[ii]))
            ELSE b1
    ELSE LET b1 == [b EXCEPT !.coeff_lower_bound[ii] =
                                FMax(b.coeff_lower_bound[ii], b.loss_coeffs[ii])]
         IN IF Lt(b1.coeff_upper_bound[ii], UPPER_CHECK)
            THEN SetCoeff(b1, ii, Mid(b1.coeff_lower_bound[ii], b1.coeff_upper_bound[ii]))
            ELSE SetCoeff(b1, ii, Mul10(b1.loss_coeffs[ii]))

RECURSIVE UpdateFrom(_, _, _, _, _)
\* Lines 451-463 from example ii on; b.exc names what was raised, if anything.
UpdateFrom(self, labs, labels_, b, ii) ==
    IF ii > Len(labs) \/ b.exc # "none" THEN b
    ELSE LET answer == IsSuccessfulLabel(self, labels_[ii], labs[ii])
         IN IF answer \notin {Yes, No} THEN [b EXCEPT !.exc = answer]
            ELSE UpdateFrom(self, labs, labels_, UpdateOne(b, ii, answer = Yes), ii + 1)

\* _update_loss_coeffs(labs, cur_labels, batch_size, loss_coeffs,
\* coeff_upper_bound, coeff_lower_bound), lines 447-463.
_update_loss_coeffs(self, labs, labels_, b) == UpdateFrom(self, labs, labels_, b, 1)

\* The calls followed. y is the label of each example of the batch.
CwBatchSizes == {1, 2}
CwShape ==
    [call : {"__init__", "_perturb"}, loss : {"None", "custom"},
     is_success : {"default", "labels"}, clip_bounds : {"None", "bounds"},
     assigned : BOOLEAN, binary_search_steps : 1..REPEAT_STEP,
     max_iter : 1..MaxIter, abort_early : BOOLEAN,
     initial_const : {Float(1, 0 - 3), Float(1, 10)},
     y : UNION {[1..n -> CwLabels] : n \in CwBatchSizes}]
\* CarliniWagnerL2Attack(model, loss=...), the other arguments at their defaults.
CwConstructions ==
    {c \in CwShape :
        /\ c.call = "__init__" /\ c.is_success = "default" /\ c.clip_bounds = "None"
        /\ ~c.assigned /\ c.binary_search_steps = 1 /\ c.max_iter = 1
        /\ c.abort_early /\ c.initial_const = Float(1, 0 - 3) /\ Len(c.y) = 1
        /\ c.y[1] = 0}
\* _perturb(x, y) on an object: a few steps of one iteration, or one step of
\* a few iterations, or REPEAT_STEP steps on one example.
CwPerturbs ==
    {c \in CwShape :
        /\ c.call = "_perturb" /\ c.loss = "None"
        /\ \/ c.binary_search_steps \in 1..MaxOuter /\ c.max_iter = 1
           \/ c.binary_search_steps = 1
           \/ /\ c.binary_search_steps = REPEAT_STEP /\ c.max_iter = 1
              /\ c.y = <<0>> /\ c.is_success = "labels" /\ c.clip_bounds = "bounds"
              /\ c.assigned /\ ~c.abort_early /\ c.initial_const = Float(1, 0 - 3)}
NoCw == [call |-> "none"]
NoTracker ==
    [cur_l2distsq |-> CARLINI_L2DIST_UPPER, cur_label |-> INVALID_LABEL,
     final_l2distsq |-> CARLINI_L2DIST_UPPER, final_label |-> INVALID_LABEL,
     final_adv |-> Clean]

CwInitial ==
    /\ cw \in CwConstructions \cup CwPerturbs
    /\ cwpc = IF cw.call = "__init__" THEN "new" ELSE "ready"
    /\ coeff_lower_bound = <<>> /\ coeff_upper_bound = <<>> /\ loss_coeffs = <<>>
    /\ aliased = FALSE /\ outer_step = 0 /\ inner_ii = 0
    /\ trackers = <<>> /\ succeeded = <<>> /\ cwout = NoOutcome

\* Lines 356-388. With loss = None, line 376 calls get_carlini_loss(), which
\* takes targeted and confidence_threshold (line 335), with no argument.
CwConstruct ==
    /\ cwpc = "new"
    /\ cwout' = IF cw.loss # "None" THEN Raised("NotImplementedError")
                ELSE Raised("TypeError")
    /\ cwpc' = "done"
    /\ UNCHANGED <<cw, coeff_lower_bound, coeff_upper_bound, loss_coeffs, aliased,
                   outer_step, inner_ii, trackers, succeeded>>
    /\ UNCHANGED varsNotCw

\* Lines 466-475: the locals of _perturb; line 471 reads self.clip_min and
\* self.clip_max (line 426).
CwStart ==
    /\ cwpc = "ready"
    /\ IF ~cw.assigned
       THEN /\ cwout' = Raised("AttributeError")
            /\ cwpc' = "done"
            /\ UNCHANGED <<coeff_lower_bound, coeff_upper_bound, loss_coeffs,
                           trackers, succeeded>>
       ELSE /\ coeff_lower_bound' = [k \in 1..Len(cw.y) |-> Float(0, 0)]
            /\ coeff_upper_bound' = [k \in 1..Len(cw.y) |-> CARLINI_COEFF_UPPER]
            /\ loss_coeffs' = [k \in 1..Len(cw.y) |-> cw.initial_const]
            /\ trackers' = [k \in 1..Len(cw.y) |-> NoTracker]
            /\ succeeded' = [k \in 1..Len(cw.y) |-> FALSE]
            /\ cwpc' = "outer"
            /\ cwout' = cwout
    /\ UNCHANGED <<cw, aliased, outer_step, inner_ii>>
    /\ UNCHANGED varsNotCw

\* self.repeat, line 388.
Repeat(self) == self.binary_search_steps >= REPEAT_STEP

\* Lines 478-486: a binary-search step begins. The trackers of the step are
\* reset, and the last step of a repeating search takes coeff_upper_bound
\* itself as loss_coeffs.
CwOuter ==
    /\ cwpc = "outer"
    /\ outer_step < cw.binary_search_steps
    /\ trackers' = [k \in 1..Len(trackers) |->
                       [trackers[k] EXCEPT !.cur_l2distsq = CARLINI_L2DIST_UPPER,
                                           !.cur_label = INVALID_LABEL]]
    /\ IF Repeat(cw) /\ outer_step = cw.binary_search_steps - 1
       THEN aliased' = TRUE /\ loss_coeffs' = coeff_upper_bound
       ELSE UNCHANGED <<aliased, loss_coeffs>>
    /\ inner_ii' = 0
    /\ cwpc' = "inner"
    /\ UNCHANGED <<cw, coeff_lower_bound, coeff_upper_bound, outer_step, succeeded,
                   cwout>>
    /\ UNCHANGED varsNotCw

\* Line 490: whether iteration ii compares the loss with the previous one.
Checks(self, ii) ==
    self.abort_early
        /\ ii % (IF self.max_iter \div NUM_CHECKS = 0 THEN 1
                 ELSE self.max_iter \div NUM_CHECKS) = 0

\* Lines 487-497: one inner iteration. The forward pass unpacks
\* self.clip_bounds (line 415); obs is what it answers, and grows tells
\* whether the loss exceeds the previous one (line 491).
CwInner(obs, grows) ==
    /\ cwpc = "inner"
    /\ inner_ii < cw.max_iter
    /\ Len(obs) = Len(cw.y)
    /\ LET answers == [k \in 1..Len(obs) |->
                          IsSuccessfulLogits(cw, obs[k].label, cw.y[k])]
           failed == {k \in 1..Len(obs) : answers[k] \notin {Yes, No}}
       IN IF cw.clip_bounds = "None"
          THEN /\ cwout' = Raised("TypeError")
               /\ cwpc' = "done"
               /\ UNCHANGED <<trackers, succeeded, inner_ii>>
          ELSE IF Checks(cw, inner_ii) /\ grows
          THEN /\ cwpc' = "update"
               /\ UNCHANGED <<trackers, succeeded, inner_ii, cwout>>
          ELSE IF failed # {}
          THEN /\ cwout' = Raised(answers[CHOOSE k \in failed : TRUE])
               /\ cwpc' = "done"
               /\ UNCHANGED <<trackers, succeeded, inner_ii>>
          ELSE /\ trackers' = [k \in 1..Len(obs) |->
                                  UpdateIfSmaller(trackers[k], obs[k],
                                                  AdvImg(outer_step, inner_ii),
                                                  answers[k] = Yes)]
               /\ succeeded' = [k \in 1..Len(obs) |->
                                   succeeded[k] \/ answers[k] = Yes]
               /\ inner_ii' = inner_ii + 1
               /\ cwpc' = IF inner_ii + 1 = cw.max_iter THEN "update" ELSE "inner"
               /\ cwout' = cwout
    /\ UNCHANGED <<cw, coeff_lower_bound, coeff_upper_bound, loss_coeffs, aliased,
                   outer_step>>
    /\ UNCHANGED varsNotCw

\* Lines 499-500: the coefficients are updated from the labels of the step.
CwUpdate ==
    /\ cwpc = "update"
    /\ LET b == _update_loss_coeffs(cw, cw.y,
                    [k \in 1..Len(trackers) |-> trackers[k].cur_label],
                    [coeff_lower_bound |-> coeff_lower_bound,
                     coeff_upper_bound |-> coeff_upper_bound,
                     loss_coeffs |-> loss_coeffs,
                     aliased |-> aliased, exc |-> "none"])
       IN /\ coeff_lower_bound' = b.coeff_lower_bound
          /\ coeff_upper_bound' = b.coeff_upper_bound
          /\ loss_coeffs' = b.loss_coeffs
          /\ IF b.exc # "none"
             THEN cwout' = Raised(b.exc) /\ cwpc' = "done" /\ outer_step' = outer_step
             ELSE cwout' = cwout /\ cwpc' = "outer" /\ outer_step' = outer_step + 1
    /\ UNCHANGED <<cw, aliased, inner_ii, trackers, succeeded>>
    /\ UNCHANGED varsNotCw

\* Line 502: return final_advs.
CwReturn ==
    /\ cwpc = "outer"
    /\ outer_step = cw.binary_search_steps
    /\ cwout' = Returned([k \in 1..Len(trackers) |-> trackers[k].final_adv])
    /\ cwpc' = "done"
    /\ UNCHANGED <<cw, coeff_lower_bound, coeff_upper_bound, loss_coeffs, aliased,
                   outer_step, inner_ii, trackers, succeeded>>
    /\ UNCHANGED varsNotCw

CwObservations == UNION {[1..n -> Obs] : n \in CwBatchSizes}
CwNext ==
    \/ CwConstruct
    \/ CwStart
    \/ CwOuter
    \/ \E obs \in CwObservations, grows \in BOOLEAN : CwInner(obs, grows)
    \/ CwUpdate
    \/ CwReturn

(***************************************************************************)
(* FileDict (vidlu/utils/collections.py, lines 131-209): a mapping kept in  *)
(* memory and pickled to the file at its path. A dict is a function from   *)
(* the keys it has to their values; the file is absent, truncated, or the  *)
(* pickle of a dict.                                                       *)
(***************************************************************************)
FdKeys == {"a", "b"}
FdValues == 1..MaxVal
FdDicts == UNION {[s -> FdValues] : s \in SUBSET FdKeys}
EmptyDict == [k \in {} |-> 0]
Truncated == [kind |-> "truncated", value |-> EmptyDict]
FdAbsent == [kind |-> "absent", value |-> EmptyDict]
FdFiles == {FdAbsent, Truncated} \cup {Pickled(d) : d \in FdDicts}

\* d[name] = value
DictSet(d, name, value) ==
    [k \in DOMAIN d \cup {name} |-> IF k = name THEN value ELSE d[k]]
\* del d[name], name being a key of d
DictDel(d, name) == [k \in DOMAIN d \ {name} |-> d[k]]

\* save(), lines 207-209: the file is opened anew and self._dict pickled
\* into it.
save(file, d) == Pickled(d)

\* load(), lines 202-205, for a file that exists: the dict, or the error
\* pickle.load raises at the end of a truncated file.
load(file) ==
    IF file.kind = "pickle" THEN [exc |-> "none", dict |-> file.value]
    ELSE [exc |-> "EOFError", dict |-> EmptyDict]

\* FileDict(path).__init__, lines 134-148: the object's dict, the file it
\* leaves, and what it raises or warns.
FileDict(file, error_on_corrupt_file) ==
    IF file.kind = "absent"
    THEN [dict |-> EmptyDict, file |-> file, exc |-> "none", warned |-> FALSE]
    ELSE LET loaded == load(file)
         IN IF loaded.exc = "none"
            THEN [dict |-> loaded.dict, file |-> file, exc |-> "none", warned |-> FALSE]
            ELSE IF error_on_corrupt_file
            THEN [dict |-> EmptyDict, file |-> file, exc |-> "EOFError", warned |-> FALSE]
            ELSE [dict |-> EmptyDict, file |-> FdAbsent, exc |-> "none", warned |-> TRUE]

NoCall == [name |-> "none", key |-> "", value |-> 0, exc |-> "none"]
Call(name, key, value, exc) == [name |-> name, key |-> key, value |-> value, exc |-> exc]

FdInitial ==
    /\ fdpc = "new"
    /\ ffile \in FdFiles
    /\ fstrict \in BOOLEAN
    /\ fdict = EmptyDict
    /\ fcall = NoCall
    /\ fwarned = FALSE

\* d = FileDict(path, error_on_corrupt_file=fstrict)
FdOpen ==
    /\ fdpc = "new"
    /\ LET made == FileDict(ffile, fstrict)
       IN /\ fdict' = made.dict
          /\ ffile' = made.file
          /\ fwarned' = made.warned
          /\ fdpc' = IF made.exc = "none" THEN "open" ELSE "failed"
          /\ fcall' = Call("__init__", "", 0, made.exc)
    /\ UNCHANGED fstrict
    /\ UNCHANGED varsNotFd

\* d[name] = value, lines 164-166.
FdSetItem(name, value) ==
    /\ fdpc = "open"
    /\ fdict' = DictSet(fdict, name, value)
    /\ ffile' = save(ffile, DictSet(fdict, name, value))
    /\ fcall' = Call("__setitem__", name, value, "none")
    /\ UNCHANGED <<fdpc, fstrict, fwarned>>
    /\ UNCHANGED varsNotFd

\* del d[name], lines 168-170: a missing key raises at line 169.
FdDelItem(name) ==
    /\ fdpc = "open"
    /\ IF name \in DOMAIN fdict
       THEN /\ fdict' = DictDel(fdict, name)
            /\ ffile' = save(ffile, DictDel(fdict, name))
            /\ fcall' = Call("__delitem__", name, 0, "none")
       ELSE /\ UNCHANGED <<fdict, ffile>>
            /\ fcall' = Call("__delitem__", name, 0, "KeyError")
    /\ UNCHANGED <<fdpc, fstrict, fwarned>>
    /\ UNCHANGED varsNotFd

\* d.pop(name) and d.pop(name, default), lines 197-200: without a default a
\* missing key raises at line 198.
FdPop(name, with_default) ==
    /\ fdpc = "open"
    /\ IF name \in DOMAIN fdict
       THEN /\ fdict' = DictDel(fdict, name)
            /\ ffile' = save(ffile, DictDel(fdict, name))
            /\ fcall' = Call("pop", name, fdict[name], "none")
       ELSE IF with_default
       THEN /\ fdict' = fdict
            /\ ffile' = save(ffile, fdict)
            /\ fcall' = Call("pop", name, 0, "none")
       ELSE /\ UNCHANGED <<fdict, ffile>>
            /\ fcall' = Call("pop", name, 0, "KeyError")
    /\ UNCHANGED <<fdpc, fstrict, fwarned>>
    /\ UNCHANGED varsNotFd

\* d.clear(), lines 194-195.
FdClear ==
    /\ fdpc = "open"
    /\ fdict' = EmptyDict
    /\ fcall' = Call("clear", "", 0, "none")
    /\ UNCHANGED <<ffile, fdpc, fstrict, fwarned>>
    /\ UNCHANGED varsNotFd

\* d.__setstate__(state), lines 181-183.
FdSetState(state) ==
    /\ fdpc = "open"
    /\ fdict' = state
    /\ ffile' = save(ffile, state)
    /\ fcall' = Call("__setstate__", "", 0, "none")
    /\ UNCHANGED <<fdpc, fstrict, fwarned>>
    /\ UNCHANGED varsNotFd

FdNext ==
    \/ FdOpen
    \/ \E name \in FdKeys, value \in FdValues : FdSetItem(name, value)
    \/ \E name \in FdKeys : FdDelItem(name)
    \/ \E name \in FdKeys, with_default \in BOOLEAN : FdPop(name, with_default)
    \/ FdClear
    \/ \E state \in FdDicts : FdSetState(state)

(***************************************************************************)
(* The attribute context managers: switch_attribute and switch_attributes   *)
(* (vidlu/utils/torch.py, lines 20-35), preserve_grads and preserve_params  *)
(* (vidlu/torch_utils.py, lines 56-70). Each is a generator under           *)
(* contextlib.contextmanager: the code before yield runs on entry, and the  *)
(* code after yield when the with block ends normally; when the body        *)
(* raises, the exception is raised in the generator at its yield.           *)
(***************************************************************************)
SwObjects == {"m1", "m2"}
SwNames == {"training", "momentum", "grad", "data"}
SwValues == {0, 1}
\* The with statements followed, `value` being the keyword arguments of
\* switch_attributes, and one of them for switch_attribute.
SwContexts ==
    [fn : {"switch_attribute"}, objects : SUBSET SwObjects \ {{}},
     value : UNION {[{n} -> SwValues] : n \in {"training", "momentum"}}]
    \cup [fn : {"switch_attributes"}, objects : SUBSET SwObjects \ {{}},
          value : [{"training", "momentum"} -> SwValues]]
    \cup [fn : {"preserve_grads"}, objects : SUBSET SwObjects \ {{}},
          value : [{"grad"} -> {0}]]
    \cup [fn : {"preserve_params"}, objects : SUBSET SwObjects \ {{}},
          value : [{"data"} -> {0}]]
NoContext == [fn |-> "none", objects |-> {}, value |-> EmptyDict]
Switches(c) == c.fn \in {"switch_attribute", "switch_attributes"}
NoAttrs == [m \in SwObjects |-> [n \in SwNames |-> 0]]

SwInitial ==
    /\ swpc = "before"
    /\ swctx \in SwContexts
    /\ swattr \in [SwObjects -> [SwNames -> SwValues]]
    /\ \A m \in SwObjects : swattr[m]["grad"] = 0 /\ swattr[m]["data"] = 0
    /\ swbefore = swattr
    /\ swstate = NoAttrs
    /\ swwrites = 0

\* Entry of the with statement. Lines 22-24 for each name: the values are
\* kept in state and the attribute is set; preserve_grads (line 58) and
\* preserve_params (line 66) only keep a clone.
SwEnter ==
    /\ swpc = "before"
    /\ swstate' = [m \in SwObjects |-> [n \in SwNames |->
                      IF m \in swctx.objects /\ n \in DOMAIN swctx.value
                      THEN swattr[m][n] ELSE 0]]
    /\ swattr' = [m \in SwObjects |-> [n \in SwNames |->
                     IF Switches(swctx) /\ m \in swctx.objects
                           /\ n \in DOMAIN swctx.value
                     THEN swctx.value[n] ELSE swattr[m][n]]]
    /\ swpc' = "inside"
    /\ UNCHANGED <<swctx, swbefore, swwrites>>
    /\ UNCHANGED varsNotSw

\* The body of the with statement assigns an attribute.
SwWrite(m, n, v) ==
    /\ swpc = "inside"
    /\ swwrites < MaxWrites
    /\ swattr' = [swattr EXCEPT ![m][n] = v]
    /\ swwrites' = swwrites + 1
    /\ UNCHANGED <<swpc, swctx, swbefore, swstate>>
    /\ UNCHANGED varsNotSw

\* Lines 26-27, 60-61 and 68-70: the code after yield.
Restored(attrs, c, state) ==
    [m \in SwObjects |-> [n \in SwNames |->
        IF m \in c.objects /\ n \in DOMAIN c.value THEN state[m][n] ELSE attrs[m][n]]]

\* The body ends normally: the generator is resumed after its yield.
SwFinish ==
    /\ swpc = "inside"
    /\ swattr' = Restored(swattr, swctx, swstate)
    /\ swpc' = "after"
    /\ UNCHANGED <<swctx, swbefore, swstate, swwrites>>
    /\ UNCHANGED varsNotSw

\* The body raises: the exception is raised at the yield of lines 25, 59,
\* 67, which is in no try statement, and leaves the generator.
SwRaise ==
    /\ swpc = "inside"
    /\ swpc' = "raised"
    /\ UNCHANGED <<swattr, swctx, swbefore, swstate, swwrites>>
    /\ UNCHANGED varsNotSw

SwNext ==
    \/ SwEnter
    \/ \E m \in SwObjects, n \in SwNames, v \in SwValues : SwWrite(m, n, v)
    \/ SwFinish
    \/ SwRaise

(***************************************************************************)
(* The specifications                                                      *)
(***************************************************************************)
AttackIdle ==
    /\ atkState = "Unconfigured" /\ atk = NoAttack /\ pc = "idle"
    /\ argX = NoTensor /\ argY = None /\ y = None /\ stepResult = NoTensor
    /\ x_adv = NoTensor /\ events = <<>> /\ modelEvals = 0
    /\ outcome = NoOutcome /\ calls = 0

DatasetIdle ==
    /\ base = DatasetInit("Dataset", "D", "", <<>>, NoInfo, RawData(0))
    /\ assertsOn = TRUE /\ op = NoOp /\ view = Nothing
    /\ subj = "none" /\ idx = 0 /\ got = Nothing

ComposeIdle ==
    /\ heap = [r \in Refs |-> <<>>] /\ objs = [o \in Objects |-> NoObject]
    /\ before = Nothing /\ cop = NoOp /\ cres = Nothing

CacheIdle ==
    /\ studied = "none" /\ csrc = Source(0, 0) /\ version = 0 /\ ccache = Nothing
    /\ wfile = NoFile /\ cdir = FALSE /\ files = EmptyDir /\ served = {}
    /\ faults = 0 /\ clast = NoOp /\ cout = Nothing /\ creads = NoReads /\ cwarn = 0

PgdIdle ==
    /\ pgd = NoArgs /\ ppc = "idle" /\ step = Unbound /\ xw = <<>> /\ delta = <<>>
    /\ dgrad = <<>> /\ origin = <<>> /\ xs = <<>> /\ deltas = <<>>
    /\ successes = <<>> /\ origins = <<>> /\ success = <<>> /\ evals = 0
    /\ updates = 0 /\ pout = NoOutcome /\ found = <<>>

CwIdle ==
    /\ cw = NoCw /\ cwpc = "idle" /\ coeff_lower_bound = <<>>
    /\ coeff_upper_bound = <<>> /\ loss_coeffs = <<>> /\ aliased = FALSE
    /\ outer_step = 0 /\ inner_ii = 0 /\ trackers = <<>> /\ succeeded = <<>>
    /\ cwout = NoOutcome

FdIdle ==
    /\ fdpc = "idle" /\ fdict = EmptyDict /\ ffile = FdAbsent /\ fstrict = FALSE
    /\ fcall = NoCall /\ fwarned = FALSE

SwIdle ==
    /\ swpc = "idle" /\ swctx = NoContext /\ swattr = NoAttrs /\ swbefore = NoAttrs
    /\ swstate = NoAttrs /\ swwrites = 0

InitAttack ==
    AttackInit /\ DatasetIdle /\ ComposeIdle /\ CacheIdle /\ PgdIdle /\ CwIdle
        /\ FdIdle /\ SwIdle
InitDataset ==
    DatasetInitial /\ AttackIdle /\ ComposeIdle /\ CacheIdle /\ PgdIdle /\ CwIdle
        /\ FdIdle /\ SwIdle
InitCompose ==
    ComposeInitial /\ AttackIdle /\ DatasetIdle /\ CacheIdle /\ PgdIdle /\ CwIdle
        /\ FdIdle /\ SwIdle
InitCache ==
    CacheInitial /\ AttackIdle /\ DatasetIdle /\ ComposeIdle /\ PgdIdle /\ CwIdle
        /\ FdIdle /\ SwIdle
InitPgd ==
    PgdInitial /\ AttackIdle /\ DatasetIdle /\ ComposeIdle /\ CacheIdle /\ CwIdle
        /\ FdIdle /\ SwIdle
InitCw ==
    CwInitial /\ AttackIdle /\ DatasetIdle /\ ComposeIdle /\ CacheIdle /\ PgdIdle
        /\ FdIdle /\ SwIdle

InitFd ==
    FdInitial /\ AttackIdle /\ DatasetIdle /\ ComposeIdle /\ CacheIdle /\ PgdIdle
        /\ CwIdle /\ SwIdle
InitSw ==
    SwInitial /\ AttackIdle /\ DatasetIdle /\ ComposeIdle /\ CacheIdle /\ PgdIdle
        /\ CwIdle /\ FdIdle

SpecAttack == InitAttack /\ [][AttackNext]_vars
SpecDataset == InitDataset /\ [][DatasetNext]_vars
SpecCompose == InitCompose /\ [][ComposeNext]_vars
SpecCache == InitCache /\ [][CacheNext]_vars
SpecPgd == InitPgd /\ [][PgdNext]_vars
SpecCw == InitCw /\ [][CwNext]_vars
SpecFd == InitFd /\ [][FdNext]_vars
SpecSw == InitSw /\ [][SwNext]_vars

(***************************************************************************)
(* Claims about the attack base protocol (checked under SpecAttack)        *)
(***************************************************************************)
CallEnded == pc = "idle" /\ atkState = "Configured" /\ outcome.kind # "none"
InClipBounds(t) ==
    \A c \in Coords : atk.clip_bounds.lo <= t.v[c] /\ t.v[c] <= atk.clip_bounds.hi

\* C1: a perturb call that returns has fired perturb_completed exactly once,
\* after the clamp and before the return, with the payload (x, y, x_adv) made of
\* the call's input, the label and the very tensor returned; a call that raises
\* has fired it zero times; after either outcome the attack is Configured and
\* perturb can be called again.
C1_EventOncePerReturnedCall ==
    /\ (CallEnded /\ outcome.kind = "returned") =>
          /\ Len(events) = 1
          /\ events[1].x_adv = outcome.value
          /\ events[1].x = argX
          /\ events[1].y = y
          /\ (argY # None => events[1].y = argY)
          /\ (atk.clip_bounds # None =>
                 /\ events[1].x_adv = _clip(atk, stepResult)
                 /\ InClipBounds(events[1].x_adv))
    /\ (CallEnded /\ outcome.kind = "raised") => Len(events) = 0
    /\ pc \in {"l114", "l116", "l117", "l119"} => Len(events) = 0
    /\ pc = "l120" => Len(events) = 1
    /\ (CallEnded /\ calls < MaxCalls) =>
          ENABLED (\E xv \in TensorValues : PerturbCall(xv, None))
C1_Witness ==
    /\ CallEnded /\ outcome.kind = "returned" /\ calls = 2
    /\ Len(events) = 1
    /\ atk.clip_bounds # None
    /\ stepResult.v # outcome.value.v

\* C2: constructing the base type or a subclass that does not override
\* _perturb fails with RuntimeError; an overriding subclass is constructed.
C2_ConstructionFailsFast ==
    /\ atkState \in {"Configured", "Perturbing"} => Overrides(atk.cls)
    /\ atkState = "ConstructFailed" =>
          ~Overrides(atk.cls) /\ outcome.exc = "RuntimeError"

\* C3: a call perturb(x) with y omitted hands the step the hard prediction of
\* the configured model on x, got with exactly one model evaluation, and does
\* not raise while deriving the label.
C3_OmittedLabelIsHardPrediction ==
    (argY = None /\ CallEnded) =>
        /\ outcome.exc # "TypeError"
        /\ y # None
        /\ y.v = _predict_hard(atk.model, argX)
        /\ modelEvals = 1

\* C4: with clip_bounds = (lo, hi) every coordinate of the returned tensor is
\* in [lo, hi] whatever the step returned; with clip_bounds None the step's
\* result is returned unchanged (the same tensor).
C4_ReturnedInsideClipBounds ==
    (CallEnded /\ outcome.kind = "returned") =>
        IF atk.clip_bounds # None
        THEN InClipBounds(outcome.value)
        ELSE outcome.value = stepResult
C4_Witness ==
    /\ CallEnded /\ outcome.kind = "returned"
    /\ atk.clip_bounds # None
    /\ \E c \in Coords : stepResult.v[c] > atk.clip_bounds.hi
    /\ \E c \in Coords : stepResult.v[c] < atk.clip_bounds.lo

(***************************************************************************)
(* Claims about the dataset pipeline (checked under SpecDataset)           *)
(***************************************************************************)
\* The elements of a dataset in index order, each as its indexing returns it.
Elements(ds) == [i \in 1..__len__(ds) |-> __getitem__(ds, i - 1)]
Indexed == subj # "none"

\* C5: for a dataset of length n and an integer i, D[i] is get_example(i) when
\* 0 <= i < n and get_example(i + n) when -n <= i < 0; for i >= n or i < -n it
\* raises IndexError without calling get_example.
C5_IntegerIndexing ==
    Indexed =>
        LET D == Subject(subj)
            n == __len__(D)
        IN /\ (0 <= idx /\ idx < n) =>
                 /\ got = [get_example(D, idx) EXCEPT !.gets = 1]
                 /\ subj = "base" => got.kind = "ok" /\ got.val = Element(idx)
           /\ (0 - n <= idx /\ idx < 0) =>
                 /\ got = [get_example(D, idx + n) EXCEPT !.gets = 1]
                 /\ subj = "base" => got.kind = "ok" /\ got.val = Element(idx + n)
           /\ (idx >= n \/ idx < 0 - n) =>
                 got.kind = "raise" /\ got.exc = "IndexError" /\ got.gets = 0
C5_Witness ==
    /\ Indexed /\ subj = "base"
    /\ idx < 0 /\ got.kind = "ok" /\ got.val = Element(__len__(base) - 1)
    /\ __len__(base) >= 2

RECURSIVE ConcatValues(_)
\* The values of the results rs, each a tuple, one after the other.
ConcatValues(rs) ==
    IF Len(rs) = 0 THEN <<>> ELSE rs[1].val \o ConcatValues(Tail(rs))

\* C6: D.batch(k), k >= 1, has ceil(n/k) elements; every batch but the last is
\* a tuple of k elements, the last has n mod k (k when k divides n); the
\* batches in order, concatenated, are D[0], ..., D[n-1].
C6_BatchPartition ==
    (op.name = "batch") =>
        /\ view.kind = "ok"
        /\ LET B == view.val
               n == __len__(base)
               k == op.batch_size
               count == __len__(B)
               batches == Elements(B)
           IN /\ count = (n + k - 1) \div k
              /\ \A j \in 1..count :
                    /\ batches[j].kind = "ok"
                    /\ Len(batches[j].val) =
                          IF j < count \/ n % k = 0 THEN k ELSE n % k
              /\ ConcatValues(batches) = base.data.items
C6_Witness ==
    /\ op.name = "batch" /\ view.kind = "ok"
    /\ __len__(base) > op.batch_size
    /\ __len__(base) % op.batch_size # 0
    /\ subj = "view" /\ idx = __len__(view.val) - 1
    /\ got.kind = "ok" /\ Len(got.val) = __len__(base) % op.batch_size

\* The two views (A, B) partition ds at p.
PartitionsAt(pair, ds, p) ==
    LET A == pair[1]
        B == pair[2]
        n == __len__(ds)
    IN /\ __len__(A) = p
       /\ __len__(B) = n - p
       /\ \A i \in 0..(p - 1) : __getitem__(A, i) = __getitem__(ds, i)
       /\ \A j \in 0..(n - p - 1) : __getitem__(B, j) = __getitem__(ds, p + j)

\* C7: D.split(position=p), 0 <= p <= n, returns views (A, B) with len(A) = p,
\* len(B) = n - p, A[i] = D[i], B[j] = D[p + j]; D.split(ratio=r) does the same
\* with p = round(r * n); both or neither of ratio and position: ValueError.
C7_SplitPartitions ==
    (op.name = "split") =>
        LET n == __len__(base) IN
        /\ ((op.ratio.kind = "None") = (op.position.kind = "None")) =>
              view.kind = "raise" /\ view.exc = "ValueError"
        /\ (op.ratio.kind = "None" /\ op.position.kind = "int" /\ op.position.v <= n) =>
              view.kind = "ok" /\ PartitionsAt(view.val, base, op.position.v)
        /\ (op.ratio.kind = "ratio" /\ op.position.kind = "None") =>
              /\ view.kind = "ok"
              /\ PartitionsAt(view.val, base, Round(op.ratio.num * n, op.ratio.den))

\* The length a sample call asks for (the dataset's length when omitted).
RequestedLength == IF op.length.kind = "int" THEN op.length.v ELSE __len__(base)

\* C8: D.sample(length, replace=False, seed) with length > len(D) fails at
\* construction with ValueError.
C8_SampleTooLongValueError ==
    (op.name = "sample" /\ ~op.replace /\ RequestedLength > __len__(base)) =>
        view.kind = "raise" /\ view.exc = "ValueError"

\* C9: D.sample(length, replace, seed) has exactly length elements; element i
\* is D[j] for the i-th drawn index j, 0 <= j < len(D); without replacement
\* the drawn indices are pairwise distinct.
C9_SampleContents ==
    (op.name = "sample" /\ view.kind = "ok") =>
        LET S == view.val
            n == __len__(base)
        IN /\ __len__(S) = RequestedLength
           /\ \E drawn \in [1..RequestedLength -> 0..(n - 1)] :
                 /\ \A i \in 1..RequestedLength :
                       /\ __getitem__(S, i - 1).kind = "ok"
                       /\ __getitem__(S, i - 1).val = __getitem__(base, drawn[i]).val
                 /\ ~op.replace =>
                       \A i, j \in 1..RequestedLength : i # j => drawn[i] # drawn[j]

\* The views of D that one composition call builds, each with its call.
SingleCallViews ==
    {[op |-> [name |-> "batch", batch_size |-> k], res |-> batch(base, k)] :
        k \in BatchSizes}
    \cup {[op |-> [name |-> "permute", seed |-> s], res |-> permute(base, s)] :
        s \in Seeds}
    \cup {[op |-> [name |-> "sample", length |-> PyInt(l), replace |-> r, seed |-> s],
           res |-> sample(base, PyInt(l), r, s, assertsOn)] :
        l \in 1..(MaxLen + 1), r \in BOOLEAN, s \in Seeds}

\* C10: the identifier is name[-subset][.modifiers...]; two views of D built
\* by different chains have different identifiers, in particular
\* D.permute(seed=a) and D.permute(seed=b), a # b, that order the elements
\* differently.
C10_DistinctChainsDistinctIdentifiers ==
    (view.kind = "ok" /\ op.name \in {"batch", "permute"}) =>
        /\ identifier(view.val) =
              base.name \o (IF base.subset # "" THEN "-" \o base.subset ELSE "")
                        \o "." \o Join(view.val.modifiers, ".")
        /\ \A other \in SingleCallViews :
              (other.op # op /\ other.res.kind = "ok") =>
                  identifier(other.res.val) # identifier(view.val)
        /\ op.name = "permute" =>
              \A b \in Seeds :
                  (b # op.seed /\ Elements(permute(base, b).val) # Elements(view.val)) =>
                      identifier(permute(base, b).val) # identifier(view.val)

(***************************************************************************)
(* Claims about composition on the object heap (checked under SpecCompose) *)
(***************************************************************************)
IsPrefix(p, s) == Len(p) <= Len(s) /\ SubSeq(s, 1, Len(p)) = p
WrapperModifiers(w) == heap[objs[w].modifiers]
\* D's name, subset, modifiers, info and data (hence its length) are what
\* they were when D was constructed.
DUnchanged == ValueOf(heap, objs["D"]) = before
Wrappers == {cres.val[t] : t \in 1..Len(cres.val)}

\* C11 as stated: after any sequence of composition and indexing calls on D,
\* the name, subset, modifiers, info and length of D are what they were, and
\* the modifiers of every wrapper returned are D's modifiers followed by the
\* wrapper's own.
C11_EveryWrapperExtendsModifiers ==
    /\ DUnchanged
    /\ cres.kind = "ok" =>
          \A w \in Wrappers : IsPrefix(before.modifiers, WrapperModifiers(w))

\* C11, amended: after any sequence of composition and indexing calls on D,
\* the name, subset, modifiers, info and length of D are what they were; the
\* modifiers of a wrapper returned by a call other than zip and join are D's
\* modifiers followed by one modifier of the wrapper's own; the wrapper
\* returned by zip or join has no modifiers, and its name holds the
\* identifiers of the operands.
C11_FrameAndModifiers ==
    /\ DUnchanged
    /\ cres.kind = "ok" =>
          \A w \in Wrappers :
              IF cop.name \in {"zip", "join"}
              THEN /\ WrapperModifiers(w) = <<>>
                   /\ objs[w].name = (IF cop.name = "zip" THEN "zip[" ELSE "join(")
                          \o identifier(before) \o "," \o identifier(ComposeE)
                          \o (IF cop.name = "zip" THEN "]" ELSE ")")
              ELSE /\ IsPrefix(before.modifiers, WrapperModifiers(w))
                   /\ Len(WrapperModifiers(w)) = Len(before.modifiers) + 1
C11_Witness ==
    /\ cres.kind = "ok" /\ cop.name = "zip" /\ before.modifiers # <<>>
    /\ WrapperModifiers("W") = <<>>

\* C12: a RAM cache built over D with max_cache_size m holds exactly the
\* first c = min(len(D), m) elements of D after construction, each read once
\* from D; its length is len(D); a read at a valid index returns D's element,
\* without a read of D when the index is below c and with one read of D at
\* that index otherwise.
C12_RamCacheServesMaterialized ==
    (studied = "ram" /\ ccache # Nothing) =>
        LET n == __len__(csrc)
            c == Len(ccache._cached_data)
            j == WrapIndex(clast.index, n)
        IN /\ __len__(ccache) = n
           /\ \A k \in 0..(c - 1) : ccache._cached_data[k + 1] = __getitem__(csrc, k).val
           /\ clast.name = "cache" =>
                 /\ c = MinSize(n, clast.max_cache_size)
                 /\ creads = [i \in 0..(MaxExamples - 1) |-> IF i < c THEN 1 ELSE 0]
           /\ (clast.name = "get" /\ ~OutOfRange(j, n)) =>
                 /\ cout.kind = "ok"
                 /\ cout.val = __getitem__(csrc, j).val
                 /\ creads = [i \in 0..(MaxExamples - 1) |->
                                 IF i = j /\ j >= c THEN 1 ELSE 0]

\* A partly materialized cache has served one element from its list and is
\* then read past the list.
C12_Witness ==
    /\ studied = "ram" /\ ccache # Nothing
    /\ clast.name = "get"
    /\ Len(ccache._cached_data) >= 1
    /\ Len(ccache._cached_data) < __len__(csrc)
    /\ WrapIndex(clast.index, __len__(csrc)) >= Len(ccache._cached_data)
    /\ cout.kind = "ok"

\* C13: constructing the whole-dataset disk cache of D returns, whatever lies
\* at the cache path (no file, a valid file, a truncated or corrupt one), a
\* dataset whose elements are D's in order, and a valid file of D's elements
\* lies at the cache path afterwards.
C13_WholeCacheNeverFails ==
    (studied = "whole" /\ clast.name = "cache") =>
        /\ cout.kind = "ok"
        /\ ccache # Nothing
        /\ ccache.data.items = csrc.data.items
        /\ wfile.kind = "file"
        /\ ~wfile.garbage
        /\ Flatten(wfile.chunks) = csrc.data.items

\* C14: when a per-example disk cache is constructed over a D of one example
\* or more and a file of a sampled index ii = i*len(D)//16 holds a value that
\* is not D[ii]'s, the construction succeeds with a warning and leaves the
\* cache directory existing and empty: no file from before remains.
C14_MismatchEmptiesDirectory ==
    (studied = "hdd" /\ clast.name = "cache_hdd" /\ clast.stale) =>
        /\ \A j \in SampleIndices(__len__(csrc)) : ~OutOfRange(j, __len__(csrc))
        /\ cout.kind = "ok"
        /\ cwarn = 1
        /\ cdir
        /\ files = EmptyDir

\* The data changed under a filled cache directory and the cache was
\* constructed again.
C14_Witness ==
    /\ studied = "hdd" /\ clast.name = "cache_hdd" /\ clast.stale
    /\ version > 0
    /\ cwarn = 1
    /\ files = EmptyDir

\* C15: a read, in a per-example disk cache, of an index one of whose files
\* exists and does not unpickle returns D's value (the example, or the field
\* of the file), does not raise, leaves in that file the pickle of that
\* value, and leaves the files of every other index as they were.
C15_CorruptFileRepaired ==
    [][(studied' = "hdd" /\ clast'.name = "get" /\ clast'.corrupt # {}) =>
          LET j == WrapIndex(clast'.index, __len__(csrc))
              example == csrc.data.items[j + 1]
          IN /\ cout'.kind = "ok"
             /\ \A p \in clast'.corrupt :
                   /\ files[p] = Corrupted
                   /\ p[2] = "" => cout'.val = example /\ files'[p] = Pickled(example)
                   /\ p[2] # "" => /\ cout'.val[p[2]] = example[p[2]]
                                   /\ files'[p] = Pickled(example[p[2]])
             /\ creads'[j] >= 1
             /\ \A p \in Paths : p[1] # j => files'[p] = files[p]]_vars

\* A corrupt file was read again while another index had its file.
C15_Witness ==
    /\ studied = "hdd" /\ clast.name = "get" /\ clast.corrupt # {}
    /\ cout.kind = "ok"
    /\ \E p \in Paths : p[1] # WrapIndex(clast.index, __len__(csrc))
                        /\ files[p].kind = "pickle"

\* C16: over a deterministic D that does not change, with no damage to the
\* files, whatever reads and constructions of a cache object over the same
\* directory came before, a read of a per-example disk cache at a valid
\* index returns D's example, and does not read D when that index was read
\* before.
C16_RoundTripAcrossObjects ==
    (studied = "hdd" /\ faults = 0 /\ clast.name = "get"
        /\ ~OutOfRange(WrapIndex(clast.index, __len__(csrc)), __len__(csrc))) =>
        LET j == WrapIndex(clast.index, __len__(csrc))
        IN /\ cout.kind = "ok"
           /\ cout.val = __getitem__(csrc, j).val
           /\ clast.again => creads[j] = 0

\* An index read through one cache object is read again as the first read
\* of an object constructed after it.
C16_Witness ==
    /\ studied = "hdd" /\ faults = 0 /\ clast.name = "get"
    /\ clast.again /\ clast.fresh
    /\ cout.kind = "ok"
    /\ creads = NoReads

\* C17: cache_data_lazily raises nothing for a part D; when the free space
\* plus what the cache directory already holds, minus len(D) times the size
\* of an example, is below min_free_space, it returns D itself, warns, and
\* the cache directory is gone; otherwise it returns the disk cache of D.
C17_LowSpaceSkipsCaching ==
    (studied = "hdd" /\ clast.name = "cache_data_lazily") =>
        LET size == __len__(csrc) * Len(<<"x", "y">>)
            low == clast.free_space + get_size(files) - size < clast.min_free_space
        IN /\ cout.kind = "ok"
           /\ low => (cout.val = csrc /\ cwarn >= 1 /\ ~cdir)
           /\ ~low => (cout.val.cls = "HDDCacheDataset" /\ cdir)

\* C18: every call of perturb_iterative with p = 1 or p = 2 ends in
\* NotImplementedError, whatever step_count and the success predicate are.
C18_OtherNormsNotImplemented ==
    (ppc = "done" /\ pgd.p # Inf) =>
        (pout.kind = "raised" /\ pout.exc = "NotImplementedError")

\* C19: with early stopping, when the predicate finds every example
\* successful at the first evaluation (step_count >= 1), the model has been
\* evaluated once, delta has not been updated, and the call returns x plus
\* the initial delta, clamped when there are clip bounds; in general the
\* loop is left at an iteration, before its update, exactly when the
\* predicate finds every example still worked on successful there.
C19_StopsAtFirstFullSuccess ==
    (pgd.stop_on_success /\ Len(success) > 0) =>
        LET sum == BatchAdd(pgd.x, pgd.delta_init)
            left == /\ ppc \in {"after", "done"}
                    /\ pout.kind # "raised"
                    /\ step.v < pgd.step_count
        IN /\ All(success) <=> left
           /\ left => updates = evals - 1
           /\ (All(success) /\ step = PyInt(0)) =>
                 /\ evals = 1
                 /\ updates = 0
                 /\ ppc = "done" =>
                       /\ pout.kind = "returned"
                       /\ pout.value = IF pgd.clip_bounds = None THEN sum
                                       ELSE BatchClamp(sum, pgd.clip_bounds)

\* A call that could have run more iterations returned after the first
\* evaluation, the clamp changing x plus the initial delta.
C19_Witness ==
    /\ pgd.stop_on_success /\ Len(success) > 0 /\ All(success)
    /\ step = PyInt(0)
    /\ pgd.step_count >= 2
    /\ ppc = "done"
    /\ pout.kind = "returned"
    /\ evals = 1
    /\ pout.value # BatchAdd(pgd.x, pgd.delta_init)

\* C20: every call of perturb_iterative with a success predicate and
\* p = inf returns a batch as long as x, whatever step_count >= 0 is and
\* whatever the predicate answers, also when it never finds a success.
C20_EarlyStoppingAlwaysReturns ==
    (ppc = "done" /\ pgd.stop_on_success /\ pgd.p = Inf) =>
        (pout.kind = "returned" /\ Len(pout.value) = Len(pgd.x))

\* C21: PGDAttack.perturb with eps = 0 and p = infinity returns a batch equal
\* to the input x in every coordinate, whatever step_count, step_size,
\* rand_init and the gradients are.
C21_ZeroRadiusReturnsInput ==
    (ppc = "done" /\ pgd.caller = "PGDAttack" /\ pgd.eps = 0 /\ pgd.p = Inf)
        => pout.kind = "returned" /\ pout.value = pgd.x

\* C23: with early stopping, when perturb_iterative returns, an example found
\* successful at some step has in the returned batch the delta it had in
\* that evaluation, an example never found successful has the delta of the
\* last update made on it, and each delta is at its example's position of
\* the batch. (delta' is the merged delta of line 287, delta and origin the
\* working delta and the positions of its examples when the loop ended.)
C23_MergedDeltas ==
    [][(ppc = "after" /\ ppc' = "done" /\ pgd.stop_on_success
            /\ pout'.kind = "returned")
        => /\ Len(delta') = Len(pgd.x)
           /\ \A i \in 1..Len(pgd.x) :
                 IF found[i] # None
                 THEN delta'[i] = found[i].v
                 ELSE \E k \in 1..Len(origin) :
                         origin[k] = i - 1 /\ delta'[i] = delta[k]]_vars

\* C24: in perturb_iterative the gradient accumulator of delta is zero before
\* every backward pass, and the update of step k uses the gradient of the
\* loss of step k alone, with nothing of the earlier steps added to it.
C24_GradientOfOneStep ==
    [][(ppc = "loop" /\ evals' = evals + 1)
        => /\ dgrad = Zeros(Len(dgrad))
           /\ (updates' = updates + 1 /\ Len(xw') = Len(xw))
                 => delta' = UpdateDelta(xw, delta,
                                 [k \in 1..Len(delta) |->
                                     Gradient(pgd.predict, step'.v, origin[k])],
                                 pgd.step_size, pgd.eps, pgd.clip_bounds)]_vars

\* C25: for p = infinity, x inside clip_bounds and an initial delta inside
\* the eps-ball: after every update of perturb_iterative each coordinate of
\* delta is in [-eps, eps] and each coordinate of x + delta is inside
\* clip_bounds, and the returned batch is within eps of x in each coordinate
\* and inside clip_bounds.
InBall(d, eps) == \A k \in 1..Len(d) : 0 - eps <= d[k] /\ d[k] <= eps
InBounds(t, bounds) ==
    bounds = None \/ \A k \in 1..Len(t) : bounds.lo <= t[k] /\ t[k] <= bounds.hi
C25_Precondition ==
    /\ pgd.p = Inf
    /\ InBounds(pgd.x, pgd.clip_bounds)
    /\ InBall(pgd.delta_init, pgd.eps)
C25_DeltaStaysInBallAndBounds ==
    C25_Precondition
        => /\ (ppc \in {"loop", "after"} /\ updates > 0)
                 => /\ InBall(delta, pgd.eps)
                    /\ InBounds(BatchAdd(xw, delta), pgd.clip_bounds)
           /\ (ppc = "done" /\ pout.kind = "returned")
                 => /\ Len(pout.value) = Len(pgd.x)
                    /\ InBall(BatchSub(pout.value, pgd.x), pgd.eps)
                    /\ InBounds(pout.value, pgd.clip_bounds)

\* A call with clip bounds and eps = 1 returned, after MaxSteps updates, a
\* batch that differs from x.
C25_Witness ==
    /\ C25_Precondition
    /\ ppc = "done" /\ pout.kind = "returned"
    /\ pgd.clip_bounds # None /\ pgd.eps = 1
    /\ updates = MaxSteps
    /\ pout.value # pgd.x

\* C22: a CarliniWagnerL2Attack is constructed when loss is None, and its
\* perturb with binary_search_steps = 1 and max_iter = 1 returns, without
\* raising, a batch of the input's shape where each example that was never
\* successful is the clean input; with another loss the construction
\* raises NotImplementedError.
C22_ConstructsAndReturnsBestEffort ==
    cwpc = "done"
        => /\ (cw.call = "__init__" /\ cw.loss = "None") => cwout.kind = "returned"
           /\ (cw.call = "__init__" /\ cw.loss # "None")
                 => cwout.kind = "raised" /\ cwout.exc = "NotImplementedError"
           /\ (cw.call = "_perturb" /\ cw.binary_search_steps = 1 /\ cw.max_iter = 1)
                 => /\ cwout.kind = "returned"
                    /\ Len(cwout.value) = Len(cw.y)
                    /\ \A k \in 1..Len(cw.y) :
                          ~succeeded[k] => cwout.value[k] = Clean

\* C26: after each binary-search step of the CW attack, for each example by
\* itself: when the step recorded a success, upper becomes min(upper, c)
\* and c becomes (lower + upper) / 2 when upper < 1e9, else stays; when it
\* recorded none, lower becomes max(lower, c) and c becomes
\* (lower + upper) / 2 when upper < 1e9, else 10 * c. Each new value is a
\* function of the example's own lower, upper and c.
C26_Expected(lo, up, c, recorded) ==
    IF recorded
    THEN LET up1 == FMin(up, c)
         IN [lower |-> lo, upper |-> up1,
             c |-> IF Lt(up1, UPPER_CHECK) THEN Mid(lo, up1) ELSE c]
    ELSE LET lo1 == FMax(lo, c)
         IN [lower |-> lo1, upper |-> up,
             c |-> IF Lt(up, UPPER_CHECK) THEN Mid(lo1, up) ELSE Mul10(c)]
C27_TrackersKeptApart ==
    [][\A k \in 1..Len(trackers) :
          LET old == trackers[k]
              new == trackers'[k]
          IN /\ Len(trackers') = Len(trackers)
             /\ (cwpc = "outer" /\ cwpc' = "inner")
                   => /\ new.cur_l2distsq = CARLINI_L2DIST_UPPER
                      /\ new.cur_label = INVALID_LABEL
             /\ (cwpc # "outer" /\ (new.cur_label # old.cur_label
                                       \/ new.cur_l2distsq # old.cur_l2distsq))
                   => /\ cwpc = "inner" /\ inner_ii' = inner_ii + 1
                      /\ new.cur_label \in CwLabels \ {cw.y[k]}
                      /\ Lt(new.cur_l2distsq, old.cur_l2distsq)
                      /\ succeeded'[k]
             /\ Le(new.final_l2distsq, old.final_l2distsq)
             /\ (new.final_adv # old.final_adv \/ new.final_label # old.final_label
                    \/ new.final_l2distsq # old.final_l2distsq)
                   => /\ cwpc = "inner" /\ inner_ii' = inner_ii + 1
                      /\ new.final_adv = AdvImg(outer_step, inner_ii)
                      /\ new.final_label \in CwLabels \ {cw.y[k]}
                      /\ Lt(new.final_l2distsq, old.final_l2distsq)
                      /\ Le(new.cur_l2distsq, new.final_l2distsq)
                      /\ succeeded'[k]
             /\ ~succeeded'[k] => new.final_adv = Clean /\ old.final_adv = Clean]_vars

\* A later binary-search step begins: the trackers of the step are reset
\* while example 1 keeps the adversarial image of an earlier step, and
\* example 2, which has not succeeded, is still the clean input.
C27_Witness ==
    /\ cwpc = "inner" /\ inner_ii = 0 /\ outer_step > 0
    /\ Len(trackers) > 1
    /\ trackers[1].final_adv = AdvImg(0, 0)
    /\ trackers[1].cur_label = INVALID_LABEL
    /\ ~succeeded[2] /\ trackers[2].final_adv = Clean

C29_FileFollowsMapping ==
    (fdpc = "open" /\ fcall.exc = "none"
        /\ fcall.name \in {"__setitem__", "__delitem__", "pop", "clear", "__setstate__"})
        => /\ ffile = Pickled(fdict)
           /\ FileDict(ffile, fstrict).dict = fdict

\* C30: when a with block of switch_attribute ends, normally or by an
\* exception of its body, each object's attribute has the value it had
\* before the block was entered, and on entering the body it has the value
\* given; the same for each name of switch_attributes, and for the grad and
\* the data that preserve_grads and preserve_params keep.
C30_AttributesRestored ==
    \A m \in swctx.objects : \A n \in DOMAIN swctx.value :
        /\ swpc \in {"after", "raised"} => swattr[m][n] = swbefore[m][n]
        /\ (swpc = "inside" /\ swwrites = 0 /\ Switches(swctx))
              => swattr[m][n] = swctx.value[n]

====
